---- MODULE Spec2Model ----
(***************************************************************************)
(* DraftService (src/src/plus/drafts/draftsService.ts): the creation,      *)
(* publication, reading and mutation of cloud drafts.                      *)
(*                                                                         *)
(* One top-level operation runs at a time (`op`); `pc` is its position.    *)
(* Every remote call the operation issues is appended to `calls` together  *)
(* with the way it settled, and `outcome` is what the operation delivers   *)
(* to its caller: a returned value or a thrown error.                      *)
(*                                                                         *)
(* Collaborators (git provider, transport, integration sessions) are the   *)
(* environment: each of their answers is a settled promise, either         *)
(* Fulfilled(value) or Rejected(reason), chosen nondeterministically.      *)
(*                                                                         *)
(* Spec is the service with its operations, and FairSpec the same with     *)
(* every awaited step of createDraft eventually taken. NormalizerSpec      *)
(* applies the response normalizer (formatDraft, formatChangeset,          *)
(* formatPatch) to wire payloads drawn in its initial states. BuilderSpec  *)
(* runs the patch-request builder step by step over the git provider's     *)
(* answers. IssueSpec is getOrOpenIssueRepository                          *)
(* (src/src/git/models/issue.ts).                                          *)
(***************************************************************************)
EXTENDS Integers, Sequences, FiniteSets, TLC

VARIABLES
    op,                 \* the operation in flight, "idle" before any
    pc,                 \* position inside the operation
    args,               \* the operation's arguments
    results,            \* createDraft: results of Promise.allSettled, line 74
    patchRequests,      \* createDraft: line 77
    failed,             \* createDraft: line 78
    user,               \* createDraft: line 79
    providerAuthHeader, \* createDraft: line 102
    prEntityIdBody,     \* createDraft: line 103
    draftId,            \* createDraft: line 138
    createChangeset,    \* createDraft: line 162
    patches,            \* createDraft: line 164
    settled,            \* getDraft: the two promises of line 390
    calls,              \* remote calls issued so far, in order
    outcome             \* what the operation delivered to its caller

vars == <<op, pc, args, results, patchRequests, failed, user, providerAuthHeader,
          prEntityIdBody, draftId, createChangeset, patches, settled, calls, outcome>>

-----------------------------------------------------------------------------
(* Bounds of the model.                                                    *)

\* longest list of changes handed to createDraft
MaxChanges == 2

-----------------------------------------------------------------------------
(* JavaScript values.                                                      *)

\* an absent string (undefined / null where a string is expected)
Undefined == "undefined"
\* an absent object (undefined / null where an object is expected)
Null == [null |-> TRUE]

\* PromiseSettledResult
Fulfilled(v) == [status |-> "fulfilled", value |-> v]
Rejected(e) == [status |-> "rejected", reason |-> e]
Pending == [status |-> "pending"]

\* new Error(`${message}: ${detail}`): `message` is the fixed text followed by the
\* identifiers interpolated into it, `detail` what follows the colon
Error(message, detail) == [name |-> "Error", message |-> message, detail |-> detail]
\* new AggregateError(errors, message)
AggregateError(errors, message) ==
    [name |-> "AggregateError", message |-> <<message>>, errors |-> errors]
\* the TypeError of reading a property of undefined
TypeError(message) == [name |-> "TypeError", message |-> <<message>>, detail |-> <<>>]

\* getSettledValue of system/promise: the value of a fulfilled promise, else undefined
getSettledValue(r, undefined) == IF r.status = "fulfilled" THEN r.value ELSE undefined

\* what the operation delivers to its caller
NoOutcome == [kind |-> "none"]
Returned(v) == [kind |-> "returned", value |-> v]
Threw(e) == [kind |-> "threw", error |-> e]
\* what awaiting a settled promise delivers
Settlement(r) == IF r.status = "fulfilled" THEN Returned(r.value) ELSE Threw(r.reason)

\* Array.prototype.map
RECURSIVE Map(_, _)
Map(F(_), s) == IF s = <<>> THEN <<>> ELSE <<F(Head(s))>> \o Map(F, Tail(s))

-----------------------------------------------------------------------------
(* Transport: connection.fetchGkDevApi and connection.fetch.               *)

\* the transport rejects: no response at all
NetworkError == Error(<<"fetch failed">>, <<>>)

\* a 2xx response carrying `data` in its JSON envelope
OkResponse(data) ==
    [ok |-> TRUE, status |-> 200, statusText |-> "OK", body |-> [data |-> data]]

\* non-2xx responses: the error as a string, as {message}, or with no JSON body
BadResponses ==
    { [ok |-> FALSE, status |-> 403, statusText |-> "Forbidden",
       body |-> [error |-> [string |-> "not allowed"]]],
      [ok |-> FALSE, status |-> 500, statusText |-> "Internal Server Error",
       body |-> [error |-> [message |-> "server failure"]]],
      [ok |-> FALSE, status |-> 404, statusText |-> "Not Found",
       body |-> [unparsable |-> TRUE]] }

\* which body of a settled call the code reads with rsp.json(): "error" inside
\* handleBadDraftResponse, "data" where the code goes on to read the success body,
\* "none" where it reads nothing. checksOk: the code tests rsp.ok; parsesBody: the
\* code calls rsp.json() after that test
JsonRead(rsp, checksOk, parsesBody) ==
    IF rsp.status # "fulfilled" THEN "none"
    ELSE IF ~rsp.value.ok /\ checksOk THEN "error"
    ELSE IF parsesBody THEN "data" ELSE "none"

\* one remote call as logged: which call of the protocol it is, its method and path,
\* headers and body, how it settled, and which body the code read from the response
Call(name, endpoint, headers, body, rsp, json) ==
    [name |-> name, endpoint |-> endpoint, headers |-> headers, body |-> body,
     rsp |-> rsp, json |-> json]

\* the ways a call that answers `data` on success can settle
FetchResults(data) ==
    {Rejected(NetworkError)} \cup {Fulfilled(r) : r \in BadResponses}
        \cup {Fulfilled(OkResponse(data))}

\* handleBadDraftResponse, lines 999-1007: always throws
\*   `${message}: (${rsp.status}) ${rspErrorMessage}`
\* where the server's message is json.error when a string, else json.error.message,
\* else the status text
handleBadDraftResponse(message, rsp) ==
    LET json == IF "unparsable" \in DOMAIN rsp.body THEN Null ELSE rsp.body
        rspErrorMessage ==
            IF json # Null /\ "error" \in DOMAIN json
            THEN IF "string" \in DOMAIN json.error THEN json.error.string
                 ELSE IF "message" \in DOMAIN json.error THEN json.error.message
                 ELSE rsp.statusText
            ELSE rsp.statusText
    IN  Error(message, <<rsp.status, rspErrorMessage>>)

\* 'Provider-Auth': Buffer.from(JSON.stringify(providerAuth)).toString('base64')
ProviderAuthHeader(providerAuth) ==
    [ProviderAuth |-> <<"base64", "json", providerAuth.provider, providerAuth.token>>]

-----------------------------------------------------------------------------
(* Repositories and provider auth.                                         *)

\* A Repository with the answers of its integration chain:
\* getBestRemoteWithIntegration() -> getIntegration() -> getSession()
Repository(id, bestRemoteWithIntegration) ==
    [id |-> id, path |-> <<"/repos", id>>, uri |-> <<"file:///repos", id>>,
     bestRemoteWithIntegration |-> bestRemoteWithIntegration]

Integration(id, session) ==
    [id |-> id, authProvider |-> [id |-> id], session |-> session]

RepoWithSession ==
    Repository("r1", Fulfilled([integration |->
        Fulfilled(Integration("github", Fulfilled([accessToken |-> "token-1"])))]))
RepoNoSession ==
    Repository("r2", Fulfilled([integration |->
        Fulfilled(Integration("github", Fulfilled(Null)))]))
RepoNoIntegration == Repository("r3", Fulfilled([integration |-> Fulfilled(Null)]))
RepoNoRemote == Repository("r4", Fulfilled(Null))
RepoRemoteFails == Repository("r5", Rejected(Error(<<"git remote failed">>, <<>>)))
RepoSessionFails ==
    Repository("r6", Fulfilled([integration |->
        Fulfilled(Integration("github", Rejected(Error(<<"session store failed">>, <<>>))))]))

Repositories ==
    {RepoWithSession, RepoNoSession, RepoNoIntegration, RepoNoRemote, RepoRemoteFails,
     RepoSessionFails}

\* getProviderAuthFromRepository: the settled result of the async function
getProviderAuthFromRepository(repository) ==
    LET remoteProvider == repository.bestRemoteWithIntegration
    IN  IF remoteProvider.status = "rejected" THEN Rejected(remoteProvider.reason)
        ELSE IF remoteProvider.value = Null THEN Fulfilled(Null)
        ELSE LET integration == remoteProvider.value.integration
             IN  IF integration.status = "rejected" THEN Rejected(integration.reason)
                 ELSE IF integration.value = Null THEN Fulfilled(Null)
                 ELSE LET session == integration.value.session
                      IN  IF session.status = "rejected" THEN Rejected(session.reason)
                          ELSE IF session.value = Null THEN Fulfilled(Null)
                          ELSE Fulfilled([provider |-> integration.value.authProvider.id,
                                          token |-> session.value.accessToken])

-----------------------------------------------------------------------------
(* Revisions (git/models/reference).                                       *)

\* the revision that denotes the uncommitted working state
Uncommitted == "0000000000000000000000000000000000000000"
\* revisions that are full 40-digit identifiers
FullShas == {"1111111111111111111111111111111111111111",
             "2222222222222222222222222222222222222222",
             "3333333333333333333333333333333333333333"}
isUncommitted(ref) == ref = Uncommitted
isSha(ref) == ref \in FullShas \cup {Uncommitted}

-----------------------------------------------------------------------------
(* PatchRequestBuilder: getCreateDraftPatchRequestFromChange.              *)

GitError(what) == Error(<<what>>, <<>>)

\* A CreateDraftChange together with the git provider's answers about it.
\*   git.branch          getBranch(uri)
\*   git.commitBranches  getCommitBranches(uri, [to, from])
\*   git.diff            getDiff(path, to, from)
\*   git.firstSha        getFirstCommitSha(uri)
\*   git.remote          getBestRemoteWithProvider(uri)
\*   git.user            getCurrentUser(uri)
\*   git.commit          getCommit(uri, from)
Change(repository, from, to, contents, git) ==
    [repository |-> repository, revision |-> [from |-> from, to |-> to],
     contents |-> contents, prEntityId |-> Undefined, git |-> git]

\* lines 251-257: the branch lookup of a change
BranchNamesResult(change) ==
    IF isUncommitted(change.revision.to)
    THEN LET b == change.git.branch
         IN  IF b.status = "rejected" THEN b
             ELSE IF b.value # Null THEN Fulfilled([list |-> <<b.value.name>>])
             ELSE Fulfilled(Null)
    ELSE change.git.commitBranches

\* lines 258-260: the diff is computed only when the caller supplied no contents
DiffResult(change) ==
    IF change.contents = Undefined THEN change.git.diff ELSE Fulfilled(Null)

\* lines 270-297: the repository-identity request
RepoData(firstSha, remote) ==
    IF remote = Null
    THEN [initialCommitSha |-> firstSha]
    ELSE [initialCommitSha |-> firstSha,
          remote |-> [url |-> remote.url, domain |-> remote.domain, path |-> remote.path],
          provider |->
              IF /\ remote.provider.gkProviderId # Undefined
                 /\ remote.provider.owner # Undefined
                 /\ remote.provider.repoName # Undefined
              THEN [id |-> remote.provider.gkProviderId,
                    repoDomain |-> remote.provider.owner,
                    repoName |-> remote.provider.repoName]
              ELSE Null]

\* the test of line 272 made whenever there is no first commit
MissingIdentityWithoutFirstSha(firstSha, remote) == firstSha = Undefined

\* lines 271-272: neither a remote nor a first commit identifies the repository
MissingIdentity(firstSha, remote) == remote = Null /\ firstSha = Undefined

\* line 300: change.contents ?? diff?.contents
Contents(change, diff) ==
    IF change.contents # Undefined THEN change.contents
    ELSE IF diff # Null THEN diff.contents ELSE Undefined

\* the branch name taken from the end of the list
BranchNameLast(branchNames) ==
    IF branchNames # Null /\ Len(branchNames.list) > 0
    THEN branchNames.list[Len(branchNames.list)] ELSE "HEAD"

\* line 307: branchNames?.[0] ?? 'HEAD'
BranchName(branchNames) ==
    IF branchNames # Null /\ Len(branchNames.list) > 0
    THEN branchNames.list[1] ELSE "HEAD"

\* lines 266-329: the builder once the five lookups of line 251 have settled as
\* `rs` (branch names, diff, first commit, remote, user) and git.getCommit, when it
\* is called, as `commit`; the build is pending while getCommit is
PatchRequestFromLookups(change, rs, commit) ==
    LET firstSha == getSettledValue(rs[3], Undefined)
        remote == getSettledValue(rs[4], Null)
        diff == getSettledValue(rs[2], Null)
        contents == Contents(change, diff)
        gitUser == getSettledValue(rs[5], Null)
        branchNames == getSettledValue(rs[1], Null)
        branchName == BranchName(branchNames)
        from == change.revision.from
        request(baseSha) ==
            [patch |-> [baseCommitSha |-> baseSha, baseBranchName |-> branchName,
                        gitRepoData |-> RepoData(firstSha, remote),
                        prEntityId |-> change.prEntityId],
             contents |-> contents, repository |-> change.repository, user |-> gitUser]
    IN  IF MissingIdentity(firstSha, remote)
        THEN Rejected(Error(<<"No remote or initial commit found">>, <<>>))
        ELSE IF contents = Undefined
        THEN Rejected(Error(<<"Unable to diff", from, change.revision.to>>, <<>>))
        ELSE IF isSha(from) THEN Fulfilled(request(from))
        ELSE IF commit.status = "pending" THEN Pending
        ELSE IF commit.status = "rejected" THEN Rejected(commit.reason)
        ELSE IF commit.value # Null THEN Fulfilled(request(commit.value.sha))
        ELSE Fulfilled(request(from))

\* line 251: the five lookups of a change, as they settle
Lookups(change) ==
    <<BranchNamesResult(change), DiffResult(change), change.git.firstSha,
      change.git.remote, change.git.user>>

\* lines 246-330: the settled result of building the patch request of one change
getCreateDraftPatchRequestFromChange(change) ==
    PatchRequestFromLookups(change, Lookups(change), change.git.commit)

-----------------------------------------------------------------------------
(* ResponseNormalizer: formatDraft, formatChangeset, formatPatch.          *)

\* new Date(isoString)
NewDate(iso) == <<"Date", iso>>

\* an absent Date
UndefinedDate == <<>>

\* an array that may be undefined is Null or Array(sequence)
Array(s) == [list |-> s]

\* the record r with field f set to v ({ ...r, f: v })
With(r, f, v) == [k \in DOMAIN r \cup {f} |-> IF k = f THEN v ELSE r[k]]

\* the record { ...defaults, ...r }: a field r has replaces the default of that name
Spread(defaults, r) ==
    [k \in DOMAIN defaults \cup DOMAIN r |-> IF k \in DOMAIN r THEN r[k] ELSE defaults[k]]

\* the headers a storage descriptor carries: the host alone, or with a header of the
\* service's own choosing as well
StorageHeaders(header, value) ==
    {[k \in {"Host"} |-> "storage"],
     [k \in {"Host", header} |-> IF k = header THEN value ELSE "storage"]}

\* formatPatch called without options
NoPatchOptions ==
    [commit |-> Null, contents |-> Undefined, files |-> Null, repository |-> Null]

\* updatedAt taken from the wire and left undefined when the wire omits it
UpdatedAtUndefaulted(response) ==
    IF response.updatedAt # Undefined THEN NewDate(response.updatedAt)
    ELSE UndefinedDate

\* lines 928, 955 and 981: new Date(response.updatedAt ?? response.createdAt)
UpdatedAt(response) ==
    NewDate(IF response.updatedAt # Undefined
            THEN response.updatedAt ELSE response.createdAt)

\* lines 968-996
formatPatch(patchResponse, options) ==
    [type |-> "cloud",
     id |-> patchResponse.id,
     createdAt |-> NewDate(patchResponse.createdAt),
     updatedAt |-> UpdatedAt(patchResponse),
     draftId |-> patchResponse.draftId,
     changesetId |-> patchResponse.changesetId,
     userId |-> patchResponse.userId,
     baseBranchName |-> patchResponse.baseBranchName,
     baseRef |-> patchResponse.baseCommitSha,
     gkRepositoryId |-> patchResponse.gitRepositoryId,
     secureLink |-> patchResponse.secureDownloadData,
     commit |-> options.commit,
     contents |-> options.contents,
     files |-> options.files,
     repository |-> options.repository]

\* lines 951-966
formatChangeset(changesetResponse) ==
    LET formatOne(patch) == formatPatch(patch, NoPatchOptions)
    IN  [id |-> changesetResponse.id,
         createdAt |-> NewDate(changesetResponse.createdAt),
         updatedAt |-> UpdatedAt(changesetResponse),
         draftId |-> changesetResponse.draftId,
         parentChangesetId |-> changesetResponse.parentChangesetId,
         userId |-> changesetResponse.userId,
         gitUserName |-> changesetResponse.gitUserName,
         gitUserEmail |-> changesetResponse.gitUserEmail,
         deepLinkUrl |-> changesetResponse.deepLink,
         patches |-> Map(formatOne, changesetResponse.patches)]

\* formatDraft options; account is Null when nobody is signed in
DraftOptions(account, fallbackAuthorName, fromPrEntityId) ==
    [account |-> account, fallbackAuthorName |-> fallbackAuthorName,
     fromPrEntityId |-> fromPrEntityId]

\* formatDraft options as getDraft and createDraft pass them: { account: account }
AccountOptions(account) == [account |-> account]

\* options?.field, `undefined` when the options object has no such field
Option(options, field, undefined) ==
    IF field \in DOMAIN options THEN options[field] ELSE undefined

\* the ownership test of line 908 comparing the creator id with the account's name
IsMineByName(draftResponse, options) ==
    LET account == Option(options, "account", Null)
    IN  draftResponse.createdBy = (IF account # Null THEN account.name ELSE Undefined)

\* line 908: draftResponse.createdBy === options?.account?.id
IsMine(draftResponse, options) ==
    LET account == Option(options, "account", Null)
    IN  draftResponse.createdBy = (IF account # Null THEN account.id ELSE Undefined)

\* lines 903-912: the author of the draft
DraftAuthor(draftResponse, options) ==
    IF IsMine(draftResponse, options)
    THEN [id |-> draftResponse.createdBy,
          name |-> options.account.name \o " (you)",
          email |-> options.account.email]
    ELSE [id |-> draftResponse.createdBy,
          name |-> Option(options, "fallbackAuthorName", Undefined),
          email |-> Undefined]

\* role defaulting that ignores where the draft was listed from
DraftRoleAlwaysViewer(draftResponse, options) ==
    IF draftResponse.role = "" THEN "viewer" ELSE draftResponse.role

\* role defaulting that also promotes a viewer
DraftRolePromotingViewer(draftResponse, options) ==
    IF draftResponse.role = ""
    THEN IF Option(options, "fromPrEntityId", FALSE) = TRUE THEN "editor" ELSE "viewer"
    ELSE IF draftResponse.role = "viewer" THEN "editor"
    ELSE draftResponse.role

\* lines 914-921: an empty role is defaulted
DraftRole(draftResponse, options) ==
    IF draftResponse.role = ""
    THEN IF Option(options, "fromPrEntityId", FALSE) = TRUE THEN "editor" ELSE "viewer"
    ELSE draftResponse.role

\* lines 898-949
formatDraft(draftResponse, options) ==
    LET mine == IsMine(draftResponse, options)
        author == DraftAuthor(draftResponse, options)
        role == DraftRole(draftResponse, options)
    IN  [draftType |-> "cloud",
         type |-> draftResponse.type,
         id |-> draftResponse.id,
         createdAt |-> NewDate(draftResponse.createdAt),
         updatedAt |-> UpdatedAt(draftResponse),
         author |-> author,
         isMine |-> mine,
         organizationId |-> IF draftResponse.organizationId = ""
                            THEN Undefined ELSE draftResponse.organizationId,
         role |-> role,
         isPublished |-> draftResponse.isPublished,
         title |-> draftResponse.title,
         description |-> draftResponse.description,
         deepLinkUrl |-> draftResponse.deepLink,
         visibility |-> draftResponse.visibility,
         isArchived |-> draftResponse.isArchived,
         archivedBy |-> draftResponse.archivedBy,
         archivedReason |-> draftResponse.archivedReason,
         archivedAt |-> IF draftResponse.archivedAt # Undefined
                        THEN NewDate(draftResponse.archivedAt)
                        ELSE UndefinedDate,
         latestChangesetId |-> draftResponse.latestChangesetId,
         \* not set by formatDraft: its callers assign it
         changesets |-> Null]

-----------------------------------------------------------------------------
(* Inputs and collaborator answers of createDraft.                         *)

Alice == [name |-> "alice", email |-> "alice@example.com"]
Bob == [name |-> "bob", email |-> "bob@example.com"]
Carol == [name |-> "carol", email |-> "carol@example.com"]

GithubRemote ==
    [url |-> "https://github.com/acme/app.git", domain |-> "github.com",
     path |-> "acme/app",
     provider |-> [gkProviderId |-> "github", owner |-> "acme", repoName |-> "app"]]

\* the git provider's answers for a change whose every lookup succeeds
GitOk(contents, gitUser) ==
    [branch |-> Fulfilled([name |-> "feature"]),
     commitBranches |-> Fulfilled(Array(<<"main", "dev">>)),
     diff |-> Fulfilled([contents |-> contents]),
     firstSha |-> Fulfilled("3333333333333333333333333333333333333333"),
     remote |-> Fulfilled(GithubRemote),
     user |-> Fulfilled(gitUser),
     commit |-> Fulfilled([sha |-> "1111111111111111111111111111111111111111"])]

\* a committed range with a non-empty diff, in a repository with a provider session
ChangeCommitted ==
    Change(RepoWithSession, "1111111111111111111111111111111111111111",
           "2222222222222222222222222222222222222222", Undefined,
           GitOk("diff-1", Alice))
\* working-tree changes with caller-supplied contents, no remote, no known git user,
\* a base revision given by name, in a repository without a provider session
ChangeWip ==
    Change(RepoNoSession, "HEAD", Uncommitted, "diff-2",
           [GitOk("unused", Null) EXCEPT !.remote = Fulfilled(Null),
                                         !.diff = Rejected(GitError("diff failed"))])
\* a range whose changes undo each other: the diff is empty
ChangeEmpty ==
    Change(RepoWithSession, "2222222222222222222222222222222222222222",
           "2222222222222222222222222222222222222222", Undefined, GitOk("", Carol))
\* the diff cannot be computed
ChangeDiffFails ==
    Change(RepoWithSession, "1111111111111111111111111111111111111111",
           "2222222222222222222222222222222222222222", Undefined,
           [GitOk("unused", Alice) EXCEPT !.diff = Rejected(GitError("diff failed"))])
\* neither a remote nor a first commit
ChangeNoIdentity ==
    Change(RepoNoRemote, "1111111111111111111111111111111111111111",
           "2222222222222222222222222222222222222222", Undefined,
           [GitOk("diff-3", Alice) EXCEPT !.remote = Fulfilled(Null),
                                          !.firstSha = Fulfilled(Undefined)])
\* a non-empty diff in a repository whose integration lookup fails
ChangeAuthFails ==
    Change(RepoRemoteFails, "1111111111111111111111111111111111111111",
           "2222222222222222222222222222222222222222", Undefined,
           GitOk("diff-4", Bob))

CreateDraftChanges ==
    {ChangeCommitted, ChangeWip, ChangeEmpty, ChangeDiffFails, ChangeNoIdentity,
     ChangeAuthFails}

\* all lists of at most n changes
RECURSIVE ChangeLists(_)
ChangeLists(n) ==
    IF n = 0 THEN {<<>>}
    ELSE ChangeLists(n - 1) \cup
         {Append(l, c) : l \in {k \in ChangeLists(n - 1) : Len(k) = n - 1},
                         c \in CreateDraftChanges}

DraftTypes == {"patch", "suggested_pr_change"}

CreateDraftOptions ==
    {[description |-> Undefined, visibility |-> Undefined, prEntityId |-> e] :
        e \in {Undefined, "pr-entity-1"}}

\* the active account, Null when signed out
Account1 == [id |-> "account-1", name |-> "Ada", email |-> "ada@example.com"]
Accounts == {Account1, Null}

\* the service's answer to POST v1/drafts
CreateDraftResponse == [id |-> "draft-1"]

\* the service's answer to POST v1/drafts/:id/changesets: one patch, with its upload
\* descriptor, per patch of the request, in the request's order
PatchCreateResponse(id, i, patch, headers) ==
    [id |-> <<"patch", i>>, createdAt |-> "2024-05-01", updatedAt |-> Undefined,
     draftId |-> id, changesetId |-> "changeset-1", userId |-> "account-1",
     baseCommitSha |-> patch.baseCommitSha, baseBranchName |-> patch.baseBranchName,
     gitRepositoryId |-> <<"gk-repo", i>>,
     secureUploadData |-> [url |-> <<"https://storage/upload", i>>, method |-> "PUT",
                           headers |-> headers]]

DraftChangesetCreateResponse(id, request, headers) ==
    [id |-> "changeset-1", createdAt |-> "2024-05-01", updatedAt |-> Undefined,
     draftId |-> id, parentChangesetId |-> Undefined, userId |-> "account-1",
     gitUserName |-> request.gitUserName, gitUserEmail |-> request.gitUserEmail,
     deepLink |-> "https://gitkraken.dev/changeset-1",
     patches |-> [i \in 1..Len(request.patches) |->
                     PatchCreateResponse(id, i, request.patches[i], headers)]]

\* the service's answers to GET v1/drafts/:id
DraftResponses(id, type) ==
    {[id |-> id, type |-> type, createdBy |-> creator, role |-> role,
      createdAt |-> "2024-05-01", updatedAt |-> updatedAt, organizationId |-> "",
      isPublished |-> TRUE, title |-> "title", description |-> Undefined,
      deepLink |-> "https://gitkraken.dev/draft-1", visibility |-> "public",
      isArchived |-> FALSE, archivedBy |-> Undefined, archivedReason |-> Undefined,
      archivedAt |-> Undefined, latestChangesetId |-> "changeset-1"] :
        creator \in {"account-1"}, role \in {"", "owner"},
        updatedAt \in {Undefined, "2024-05-02"}}

\* git.getDiffFiles(path, contents)
DiffFilesResults ==
    {Fulfilled(Null),
     Fulfilled([files |-> <<[path |-> "a.ts", status |-> "M"]>>]),
     Rejected(GitError("diff files failed"))}

\* the storage target's answers to an upload
UploadResults ==
    {Rejected(NetworkError), Fulfilled(OkResponse(Null)),
     Fulfilled([ok |-> FALSE, status |-> 403, statusText |-> "Forbidden",
                body |-> [unparsable |-> TRUE]])}

-----------------------------------------------------------------------------
(* DraftOrchestrator: createDraft, lines 64-244.                           *)

cdLocals == <<patchRequests, failed, user, providerAuthHeader, prEntityIdBody,
              draftId, createChangeset, patches>>

Init ==
    /\ op = "idle"
    /\ pc = "idle"
    /\ args = Null
    /\ results = <<>>
    /\ patchRequests = <<>>
    /\ failed = <<>>
    /\ user = Null
    /\ providerAuthHeader = Null
    /\ prEntityIdBody = Null
    /\ draftId = Undefined
    /\ createChangeset = Null
    /\ patches = <<>>
    /\ settled = Null
    /\ calls = <<>>
    /\ outcome = NoOutcome

\* the operation ends: it returns a value or throws (the catch of lines 238-243
\* logs and rethrows)
Finish(o) ==
    /\ pc' = "done"
    /\ outcome' = o

\* a value is truthy as a string: neither undefined nor empty
Truthy(str) == str # Undefined /\ str # ""

\* Promise.all in place of Promise.allSettled: resumes at the first rejection
AllSettledAsPromiseAll(rs) ==
    \/ \E i \in DOMAIN rs : rs[i].status = "rejected"
    \/ \A i \in DOMAIN rs : rs[i].status = "fulfilled"

\* Promise.allSettled, line 74: resumes once every promise has settled
AllSettled(rs) == \A i \in DOMAIN rs : rs[i].status # "pending"

\* line 74: createDraft starts one patch-request build per change, all at once
CreateDraft ==
    /\ op = "idle"
    /\ \E type \in DraftTypes, changes \in ChangeLists(MaxChanges),
          options \in CreateDraftOptions :
        /\ args' = [type |-> type, title |-> "title", changes |-> changes,
                    options |-> options]
        /\ results' = [i \in 1..Len(changes) |-> Pending]
    /\ op' = "createDraft"
    /\ pc' = "allSettled"
    /\ UNCHANGED <<cdLocals, settled, calls, outcome>>

\* one pending build settles; the builds settle in any order
SettlePatchRequest ==
    /\ op = "createDraft"
    /\ pc = "allSettled"
    /\ \E i \in DOMAIN results :
        /\ results[i].status = "pending"
        /\ results' = [results EXCEPT
                          ![i] = getCreateDraftPatchRequestFromChange(args.changes[i])]
    /\ UNCHANGED <<op, pc, args, cdLocals, settled, calls, outcome>>

\* the loop of lines 77-93 leaving at the first failure it meets
RECURSIVE PartitionResultsFirstFailure(_, _)
PartitionResultsFirstFailure(rs, acc) ==
    IF rs = <<>> THEN acc
    ELSE LET r == Head(rs)
         IN  IF r.status = "rejected" THEN [acc EXCEPT !.failed = <<r.reason>>]
             ELSE IF r.status = "fulfilled" /\ Truthy(r.value.contents)
             THEN PartitionResultsFirstFailure(Tail(rs),
                      [acc EXCEPT !.patchRequests = Append(@, r.value),
                                  !.user = IF @ = Null THEN r.value.user ELSE @])
             ELSE PartitionResultsFirstFailure(Tail(rs), acc)

\* the loop of lines 77-93 taking the user of the first fulfilled result, kept or
\* dropped as empty
RECURSIVE PartitionResultsUserOfFirstResult(_, _)
PartitionResultsUserOfFirstResult(rs, acc) ==
    IF rs = <<>> THEN acc
    ELSE LET r == Head(rs)
             next ==
                 IF r.status = "fulfilled"
                 THEN LET seen == [acc EXCEPT
                                      !.user = IF @ = Null THEN r.value.user ELSE @]
                      IN  IF Truthy(r.value.contents)
                          THEN [seen EXCEPT !.patchRequests = Append(@, r.value)]
                          ELSE seen
                 ELSE IF r.status = "rejected"
                 THEN [acc EXCEPT !.failed = Append(@, r.reason)]
                 ELSE acc
         IN  PartitionResultsUserOfFirstResult(Tail(rs), next)

\* lines 77-93: the loop over the settled results (a promise still pending, which
\* Promise.allSettled never hands over, would add nothing)
RECURSIVE PartitionResults(_, _)
PartitionResults(rs, acc) ==
    IF rs = <<>> THEN acc
    ELSE LET r == Head(rs)
             next ==
                 IF r.status = "fulfilled"
                 THEN IF Truthy(r.value.contents)
                      THEN [acc EXCEPT
                               !.patchRequests = Append(@, r.value),
                               !.user = IF @ = Null THEN r.value.user ELSE @]
                      ELSE acc
                 ELSE IF r.status = "rejected"
                 THEN [acc EXCEPT !.failed = Append(@, r.reason)]
                 ELSE acc
         IN  PartitionResults(Tail(rs), next)

\* lines 75-98: every build has settled; partition the results and fail on any failure
InspectResults ==
    /\ op = "createDraft"
    /\ pc = "allSettled"
    /\ AllSettled(results)
    /\ LET p == PartitionResults(results,
                    [patchRequests |-> <<>>, failed |-> <<>>, user |-> Null])
       IN  /\ patchRequests' = p.patchRequests
           /\ failed' = p.failed
           /\ user' = p.user
           /\ IF Len(results) = 0
              THEN Finish(Threw(Error(<<"No changes found">>, <<>>)))
              ELSE IF Len(p.failed) > 0
              THEN Finish(Threw(AggregateError(p.failed, "Unable to create draft")))
              ELSE pc' = "providerAuth" /\ UNCHANGED outcome
    /\ UNCHANGED <<op, args, results, providerAuthHeader, prEntityIdBody, draftId,
                   createChangeset, patches, settled, calls>>

\* the test of line 104 comparing with another type
IsSuggestionOtherType(type) == type = "suggested_change"

\* line 104: the draft is a suggestion linked to a provider's pull request
IsSuggestion(type) == type = "suggested_pr_change"

\* lines 102-120: a suggested_pr_change needs a pull request and provider auth
ResolveProviderAuth ==
    /\ op = "createDraft"
    /\ pc = "providerAuth"
    /\ IF IsSuggestion(args.type)
       THEN IF args.options.prEntityId = Undefined
            THEN /\ Finish(Threw(Error(<<"No pull request info provided">>, <<>>)))
                 /\ UNCHANGED <<providerAuthHeader, prEntityIdBody>>
            ELSE /\ prEntityIdBody' = [prEntityId |-> args.options.prEntityId]
                 /\ IF Len(patchRequests) = 0
                    THEN /\ Finish(Threw(TypeError(
                                "Cannot read properties of undefined (reading 'repository')")))
                         /\ UNCHANGED providerAuthHeader
                    ELSE LET providerAuth ==
                                 getProviderAuthFromRepository(patchRequests[1].repository)
                         IN  IF providerAuth.status = "rejected"
                             THEN /\ Finish(Threw(providerAuth.reason))
                                  /\ UNCHANGED providerAuthHeader
                             ELSE IF providerAuth.value = Null
                             THEN /\ Finish(Threw(Error(
                                         <<"No provider integration found">>, <<>>)))
                                  /\ UNCHANGED providerAuthHeader
                             ELSE /\ providerAuthHeader' =
                                         ProviderAuthHeader(providerAuth.value)
                                  /\ pc' = "createDraft"
                                  /\ UNCHANGED outcome
       ELSE /\ pc' = "createDraft"
            /\ UNCHANGED <<providerAuthHeader, prEntityIdBody, outcome>>
    /\ UNCHANGED <<op, args, results, patchRequests, failed, user, draftId,
                   createChangeset, patches, settled, calls>>

\* a call answered non-2xx is made again, while fewer than six calls were made
SettleRetrying(rsp, message, onOk) ==
    IF rsp.status = "rejected" THEN Finish(Threw(rsp.reason))
    ELSE IF ~rsp.value.ok
    THEN IF Len(calls) < 6 THEN UNCHANGED <<pc, outcome>>
         ELSE Finish(Threw(handleBadDraftResponse(message, rsp.value)))
    ELSE pc' = onOk /\ UNCHANGED outcome

\* a call to the service settles: rejected, non-2xx (handleBadDraftResponse throws),
\* or 2xx with its body parsed
Settle(rsp, message, onOk) ==
    IF rsp.status = "rejected" THEN Finish(Threw(rsp.reason))
    ELSE IF ~rsp.value.ok THEN Finish(Threw(handleBadDraftResponse(message, rsp.value)))
    ELSE pc' = onOk /\ UNCHANGED outcome

\* lines 122-138: POST v1/drafts
PostDraft ==
    /\ op = "createDraft"
    /\ pc = "createDraft"
    /\ \E rsp \in FetchResults(CreateDraftResponse) :
        /\ calls' = Append(calls,
               Call("createDraft", <<"POST", "v1/drafts">>, Null,
                    [type |-> args.type, title |-> args.title,
                     description |-> args.options.description,
                     visibility |-> IF args.options.visibility # Undefined
                                    THEN args.options.visibility ELSE "public"],
                    rsp, JsonRead(rsp, TRUE, TRUE)))
        /\ Settle(rsp, <<"Unable to create draft">>, "createChangeset")
        /\ draftId' = IF rsp.status = "fulfilled" /\ rsp.value.ok
                      THEN rsp.value.body.data.id ELSE draftId
    /\ UNCHANGED <<op, args, results, patchRequests, failed, user, providerAuthHeader,
                   prEntityIdBody, createChangeset, patches, settled>>

\* the patch metadata of a patch request (p => p.patch)
PatchOf(p) == p.patch

\* lines 142-162: POST v1/drafts/:draftId/changesets
PostChangeset ==
    /\ op = "createDraft"
    /\ pc = "createChangeset"
    /\ LET request ==
               [gitUserName |-> IF user # Null THEN user.name ELSE Undefined,
                gitUserEmail |-> IF user # Null THEN user.email ELSE Undefined,
                patches |-> Map(PatchOf, patchRequests)]
       IN  \E headers \in StorageHeaders("Content-Type", "application/octet-stream") :
           \E rsp \in FetchResults(DraftChangesetCreateResponse(draftId, request,
                                                                headers)) :
            /\ calls' = Append(calls,
                   Call("createChangeset", <<"POST", "v1/drafts", draftId, "changesets">>,
                        providerAuthHeader, request, rsp, JsonRead(rsp, TRUE, TRUE)))
            /\ Settle(rsp, <<"Unable to create changeset for draft", draftId>>, "upload")
            /\ createChangeset' = IF rsp.status = "fulfilled" /\ rsp.value.ok
                                  THEN rsp.value.body.data ELSE createChangeset
    /\ UNCHANGED <<op, args, results, patchRequests, failed, user, providerAuthHeader,
                   prEntityIdBody, draftId, patches, settled>>

\* the i-th patch of the response paired with the i-th change of the input
PatchRequestForByChange(i) == results[i].value

\* line 170: the patch request paired with the i-th patch of the response
PatchRequestFor(i) == patchRequests[i]

\* line 177: the files of the diff, tagged with the patch's repository id
DiffFilesOf(diffFiles, gkRepositoryId) ==
    IF diffFiles # Null
    THEN LET tag(f) == With(f, "gkRepositoryId", gkRepositoryId)
         IN  Map(tag, diffFiles.files)
    ELSE <<>>

\* lines 167-202: one turn of the upload loop, for the next patch of the response
UploadPatch ==
    /\ op = "createDraft"
    /\ pc = "upload"
    /\ Len(patches) < Len(createChangeset.patches)
    /\ LET i == Len(patches) + 1
           patch == createChangeset.patches[i]
       IN  IF i > Len(patchRequests)
           THEN /\ Finish(Threw(TypeError(
                       "Cannot destructure property 'contents' of undefined")))
                /\ UNCHANGED <<patches, calls>>
           ELSE LET contents == PatchRequestFor(i).contents
                    repository == PatchRequestFor(i).repository
                IN  IF contents = Undefined
                    THEN /\ Finish(Threw(Error(<<"No contents found for",
                                                 patch.baseCommitSha>>, <<>>)))
                         /\ UNCHANGED <<patches, calls>>
                    ELSE \E diffFiles \in DiffFilesResults :
                         IF diffFiles.status = "rejected"
                         THEN /\ Finish(Threw(diffFiles.reason))
                              /\ UNCHANGED <<patches, calls>>
                         ELSE \E rsp \in UploadResults :
                              /\ calls' = Append(calls,
                                     Call("upload",
                                          <<patch.secureUploadData.method,
                                            patch.secureUploadData.url>>,
                                          Spread([k \in {"Content-Type"} |->
                                                     "text/plain"],
                                                 patch.secureUploadData.headers),
                                          contents, rsp, JsonRead(rsp, FALSE, FALSE)))
                              /\ IF rsp.status = "rejected"
                                 THEN Finish(Threw(rsp.reason)) /\ UNCHANGED patches
                                 ELSE /\ patches' = Append(patches,
                                            formatPatch(
                                                With(patch, "secureDownloadData", Null),
                                                [commit |-> Null,
                                                 contents |-> contents,
                                                 files |-> Array(DiffFilesOf(
                                                     diffFiles.value,
                                                     patch.gitRepositoryId)),
                                                 repository |-> repository]))
                                      /\ UNCHANGED <<pc, outcome>>
    /\ UNCHANGED <<op, args, results, patchRequests, failed, user, providerAuthHeader,
                   prEntityIdBody, draftId, createChangeset, settled>>

\* lines 204-212: POST v1/drafts/:draftId/publish, once the upload loop has ended
PublishDraft ==
    /\ op = "createDraft"
    /\ pc = "upload"
    /\ Len(patches) = Len(createChangeset.patches)
    /\ \E rsp \in FetchResults(Null) :
        /\ calls' = Append(calls,
               Call("publish", <<"POST", "v1/drafts", draftId, "publish">>,
                    providerAuthHeader, prEntityIdBody, rsp,
                    JsonRead(rsp, TRUE, FALSE)))
        /\ Settle(rsp, <<"Failed to publish draft", draftId>>, "getDraft")
    /\ UNCHANGED <<op, args, results, cdLocals, settled>>

\* lines 214-237: GET v1/drafts/:draftId, then the Draft is assembled
FetchCreatedDraft ==
    /\ op = "createDraft"
    /\ pc = "getDraft"
    /\ \E draft \in DraftResponses(draftId, args.type), account \in Accounts :
       \E rsp \in FetchResults(draft) :
        /\ calls' = Append(calls,
               Call("getDraft", <<"GET", "v1/drafts", draftId>>,
                    providerAuthHeader, Null, rsp, JsonRead(rsp, TRUE, TRUE)))
        /\ IF rsp.status = "rejected" THEN Finish(Threw(rsp.reason))
           ELSE IF ~rsp.value.ok
           THEN Finish(Threw(handleBadDraftResponse(
                    <<"Unable to open draft", draftId>>, rsp.value)))
           ELSE LET newDraft ==
                        formatDraft(rsp.value.body.data, AccountOptions(account))
                    changeset ==
                        [formatChangeset([createChangeset EXCEPT !.patches = <<>>])
                            EXCEPT !.patches = patches]
                IN  Finish(Returned([newDraft EXCEPT
                                        !.changesets = Array(<<changeset>>)]))
    /\ UNCHANGED <<op, args, results, cdLocals, settled>>

-----------------------------------------------------------------------------
(* DraftOrchestrator: mutation operations, each one call to the service.   *)

DraftIds == {"draft-1", "draft-2"}

\* what a handler that awaits one call delivers: the rejection, the error of
\* handleBadDraftResponse when the handler tests rsp.ok, else `value`
Deliver(rsp, checksOk, message, value) ==
    IF rsp.status = "rejected" THEN Threw(rsp.reason)
    ELSE IF ~rsp.value.ok /\ checksOk
    THEN Threw(handleBadDraftResponse(message, rsp.value))
    ELSE Returned(value)

\* a handler that runs to its end in one step
Run(name, arguments, issued, delivered) ==
    /\ op' = name
    /\ pc' = "done"
    /\ args' = arguments
    /\ calls' = issued
    /\ outcome' = delivered
    /\ UNCHANGED <<results, cdLocals, settled>>

\* lines 332-335: the response is awaited and never looked at
DeleteDraft ==
    /\ op = "idle"
    /\ \E id \in DraftIds, rsp \in FetchResults(Null) :
           Run("deleteDraft", [id |-> id],
               <<Call("deleteDraft", <<"DELETE", "v1/drafts", id>>, Null, Null, rsp,
                      JsonRead(rsp, FALSE, FALSE))>>,
               Deliver(rsp, FALSE, <<>>, Null))

DraftVisibilities == {"public", "private", "invite_only", "provider_access"}

\* lines 598-622
UpdateDraftVisibility ==
    /\ op = "idle"
    /\ \E id \in DraftIds, visibility \in DraftVisibilities :
       \E rsp \in FetchResults([id |-> id, visibility |-> visibility]) :
           Run("updateDraftVisibility", [id |-> id, visibility |-> visibility],
               <<Call("updateDraftVisibility", <<"PATCH", "/v1/drafts", id>>, Null,
                      [visibility |-> visibility], rsp, JsonRead(rsp, TRUE, TRUE))>>,
               Deliver(rsp, TRUE, <<"Unable to update draft", id>>,
                       IF rsp.status = "fulfilled" /\ rsp.value.ok
                       THEN rsp.value.body.data ELSE Null))

PendingUser1 == [userId |-> "user-1", role |-> "editor"]
PendingUser2 == [userId |-> "user-2", role |-> "viewer"]
PendingUserLists == {<<>>, <<PendingUser1>>, <<PendingUser1, PendingUser2>>}

\* the test of line 655 left out: every list is sent
NoPendingUsersUnchecked(pendingUsers) == FALSE

\* line 655: pendingUsers.length === 0
NoPendingUsers(pendingUsers) == Len(pendingUsers) = 0

\* lines 647-679
AddDraftUsers ==
    /\ op = "idle"
    /\ \E id \in DraftIds, pendingUsers \in PendingUserLists :
           IF NoPendingUsers(pendingUsers)
           THEN Run("addDraftUsers", [id |-> id, pendingUsers |-> pendingUsers], <<>>,
                    Threw(Error(<<"No changes found">>, <<>>)))
           ELSE \E rsp \in FetchResults(Array(pendingUsers)) :
                Run("addDraftUsers", [id |-> id, pendingUsers |-> pendingUsers],
                    <<Call("addDraftUsers", <<"POST", "/v1/drafts", id, "users">>, Null,
                           [id |-> id, users |-> pendingUsers], rsp,
                           JsonRead(rsp, TRUE, TRUE))>>,
                    Deliver(rsp, TRUE, <<"Unable to add users for draft", id>>,
                            IF rsp.status = "fulfilled" /\ rsp.value.ok
                            THEN rsp.value.body.data ELSE Null))

\* lines 681-697
RemoveDraftUser ==
    /\ op = "idle"
    /\ \E id \in DraftIds, userId \in {"user-1", "user-2"}, rsp \in FetchResults(Null) :
           Run("removeDraftUser", [id |-> id, userId |-> userId],
               <<Call("removeDraftUser", <<"DELETE", "/v1/drafts", id, "users", userId>>,
                      Null, Null, rsp, JsonRead(rsp, TRUE, FALSE))>>,
               Deliver(rsp, TRUE, <<"Unable to update user for draft", userId, id>>,
                       [true |-> TRUE]))

-----------------------------------------------------------------------------
(* DraftOrchestrator: getDraft and getChangesets, lines 377-514.           *)

SomeProviderAuth == [provider |-> "github", token |-> "token-9"]

\* a patch as the service lists it
DraftPatchResponse(id, i) ==
    [id |-> <<"patch", i>>, createdAt |-> "2024-05-01", updatedAt |-> "2024-05-03",
     draftId |-> id, changesetId |-> "changeset-1", userId |-> "account-1",
     baseCommitSha |-> "1111111111111111111111111111111111111111",
     baseBranchName |-> "main", gitRepositoryId |-> <<"gk-repo", i>>,
     secureDownloadData |-> [url |-> <<"https://storage/download", i>>,
                             method |-> "GET",
                             headers |-> [k \in {"Host"} |-> "storage"]]]

DraftChangesetResponse(id, n) ==
    [id |-> "changeset-1", createdAt |-> "2024-05-01", updatedAt |-> Undefined,
     draftId |-> id, parentChangesetId |-> Undefined, userId |-> "account-1",
     gitUserName |-> "alice", gitUserEmail |-> "alice@example.com",
     deepLink |-> "https://gitkraken.dev/changeset-1",
     patches |-> [i \in 1..n |-> DraftPatchResponse(id, i)]]

\* the service's answers to GET /v1/drafts/:id/changesets
ChangesetListResponses(id) ==
    {<<>>, <<DraftChangesetResponse(id, 1)>>, <<DraftChangesetResponse(id, 2)>>}

\* String(error), as interpolated into a message
ErrorToString(e) == <<e.name, e.message, e.detail>>

\* lines 489-514: the settled result of getChangesets, given how its call settled
getChangesets(id, rsp) ==
    IF rsp.status = "rejected" THEN Rejected(rsp.reason)
    ELSE IF ~rsp.value.ok
    THEN Rejected(handleBadDraftResponse(
             <<"Unable to open changesets for draft", id>>, rsp.value))
    ELSE Fulfilled(Array(Map(formatChangeset, rsp.value.body.data)))

\* lines 378-393: both calls are issued before either is awaited
GetDraft ==
    /\ op = "idle"
    /\ \E id \in DraftIds, providerAuth \in {Null, SomeProviderAuth} :
        /\ args' = [id |-> id, options |-> [providerAuth |-> providerAuth]]
        /\ calls' = <<Call("getDraft", <<"GET", "v1/drafts", id>>,
                           IF providerAuth # Null
                           THEN ProviderAuthHeader(providerAuth) ELSE Null,
                           Null, Pending, "none"),
                      Call("getChangesets", <<"GET", "/v1/drafts", id, "changesets">>,
                           Null, Null, Pending, "none")>>
    /\ op' = "getDraft"
    /\ pc' = "allSettled"
    /\ settled' = [rspResult |-> Pending, changesetsResult |-> Pending]
    /\ UNCHANGED <<results, cdLocals, outcome>>

\* the header fetch settles
SettleDraftFetch ==
    /\ op = "getDraft"
    /\ pc = "allSettled"
    /\ settled.rspResult.status = "pending"
    /\ \E draft \in DraftResponses(args.id, "patch") :
       \E rsp \in FetchResults(draft) :
        /\ settled' = [settled EXCEPT !.rspResult = rsp]
        /\ calls' = [calls EXCEPT ![1].rsp = rsp]
    /\ UNCHANGED <<op, pc, args, results, cdLocals, outcome>>

\* getChangesets settles
SettleChangesets ==
    /\ op = "getDraft"
    /\ pc = "allSettled"
    /\ settled.changesetsResult.status = "pending"
    /\ \E list \in ChangesetListResponses(args.id) :
       \E rsp \in FetchResults(list) :
        /\ settled' = [settled EXCEPT !.changesetsResult = getChangesets(args.id, rsp)]
        /\ calls' = [calls EXCEPT ![2].rsp = rsp,
                                  ![2].json = JsonRead(rsp, TRUE, TRUE)]
    /\ UNCHANGED <<op, pc, args, results, cdLocals, outcome>>

\* Promise.all in place of line 390: resumes at the first rejection
BothSettledAsPromiseAll(s) ==
    \/ s.rspResult.status = "rejected"
    \/ s.changesetsResult.status = "rejected"
    \/ s.rspResult.status = "fulfilled" /\ s.changesetsResult.status = "fulfilled"

\* Promise.allSettled, line 390: resumes once both promises have settled
BothSettled(s) ==
    s.rspResult.status # "pending" /\ s.changesetsResult.status # "pending"

\* lines 395-412 with both rejections reported under the header's message
DraftFailureOneMessage(id, rspResult, changesetsResult) ==
    IF rspResult.status = "rejected"
    THEN Threw(Error(<<"Unable to open draft", id>>,
                     <<ErrorToString(rspResult.reason)>>))
    ELSE IF changesetsResult.status = "rejected"
    THEN Threw(Error(<<"Unable to open draft", id>>,
                     <<ErrorToString(changesetsResult.reason)>>))
    ELSE IF ~rspResult.value.ok
    THEN Threw(handleBadDraftResponse(<<"Unable to open draft", id>>, rspResult.value))
    ELSE NoOutcome

\* lines 395-412: which failure getDraft reports, NoOutcome when there is none
DraftFailure(id, rspResult, changesetsResult) ==
    IF rspResult.status = "rejected"
    THEN Threw(Error(<<"Unable to open draft", id>>,
                     <<ErrorToString(rspResult.reason)>>))
    ELSE IF changesetsResult.status = "rejected"
    THEN Threw(Error(<<"Unable to open changesets for draft", id>>,
                     <<ErrorToString(changesetsResult.reason)>>))
    ELSE IF ~rspResult.value.ok
    THEN Threw(handleBadDraftResponse(<<"Unable to open draft", id>>, rspResult.value))
    ELSE NoOutcome

\* lines 395-424
InspectDraft ==
    /\ op = "getDraft"
    /\ pc = "allSettled"
    /\ BothSettled(settled)
    /\ LET failure == DraftFailure(args.id, settled.rspResult, settled.changesetsResult)
       IN  IF failure # NoOutcome
           THEN Finish(failure)
           ELSE \E account \in Accounts :
                Finish(Returned(
                    [formatDraft(settled.rspResult.value.body.data,
                                 AccountOptions(account))
                        EXCEPT !.changesets = settled.changesetsResult.value]))
    \* the header response is read only when neither promise was rejected
    /\ calls' = [calls EXCEPT ![1].json =
                    IF settled.changesetsResult.status = "rejected" THEN "none"
                    ELSE JsonRead(settled.rspResult, TRUE, TRUE)]
    /\ UNCHANGED <<op, args, results, cdLocals, settled>>

-----------------------------------------------------------------------------
(* DraftOrchestrator: getDraftsCore and getCodeSuggestions, lines 427-486  *)
(* and 817-850.                                                            *)

\* encodeURIComponent
EncodeURIComponent(str) == <<"uri-component", str>>

\* the service's answers to GET /v1/drafts
DraftListResponses ==
    {<<>>} \cup
    {<<d>> : d \in DraftResponses("draft-1", "suggested_pr_change")} \cup
    {<<d, e>> : d \in DraftResponses("draft-1", "suggested_pr_change"),
                e \in {x \in DraftResponses("draft-2", "patch") : x.role = "owner"}}

\* the test of line 442 never taken: the filter is ignored
HasPrEntityIdNever(options) == FALSE

\* line 442: options?.prEntityId != null
HasPrEntityId(options) == options.prEntityId # Undefined

\* lines 432-486: the calls getDraftsCore issues and its settled result, given how
\* the listing call settles and the active account
getDraftsCore(options, rsp, account) ==
    LET fromPrEntityId == HasPrEntityId(options)
        queryStrings ==
            (IF HasPrEntityId(options)
             THEN <<<<"prEntityId", EncodeURIComponent(options.prEntityId)>>>>
             ELSE <<>>)
            \o (IF options.isArchived THEN <<<<"archived", "true">>>> ELSE <<>>)
        headers == IF options.providerAuth # Null
                   THEN ProviderAuthHeader(options.providerAuth) ELSE Null
        format(d) == formatDraft(d, DraftOptions(account, "Unknown", fromPrEntityId))
    IN  IF HasPrEntityId(options) /\ options.providerAuth = Null
        THEN [calls |-> <<>>,
              result |-> Rejected(Error(<<"No provider integration found">>, <<>>))]
        ELSE [calls |-> <<Call("getDrafts", <<"GET", "/v1/drafts", queryStrings>>,
                               headers, Null, rsp, JsonRead(rsp, TRUE, TRUE))>>,
              result |->
                  IF rsp.status = "rejected" THEN Rejected(rsp.reason)
                  ELSE IF ~rsp.value.ok
                  THEN Rejected(handleBadDraftResponse(<<"Unable to open drafts">>,
                                                       rsp.value))
                  ELSE Fulfilled(Array(Map(format, rsp.value.body.data)))]

\* a settled result as delivered to the caller of an async function
Delivered(result) ==
    IF result.status = "rejected" THEN Threw(result.reason)
    ELSE Returned(result.value)

DraftsCoreOptions ==
    [prEntityId : {Undefined, "pr-entity-1"}, providerAuth : {Null, SomeProviderAuth},
     isArchived : BOOLEAN]

\* lines 432-486, called directly
GetDraftsCore ==
    /\ op = "idle"
    /\ \E options \in DraftsCoreOptions, list \in DraftListResponses, account \in Accounts :
       \E rsp \in FetchResults(list) :
           LET r == getDraftsCore(options, rsp, account)
           IN  Run("getDraftsCore", [options |-> options], r.calls, Delivered(r.result))

\* integrations/providers/models: the integrations with static metadata
providersMetadata ==
    [github |-> [domain |-> "github.com", scopes |-> <<"repo">>]]

IntegrationIds == {"github", "unknown"}

\* the answers of integrationAuthentication.getSession
SessionResults ==
    {Fulfilled(Null), Fulfilled([accessToken |-> "token-2"]),
     Rejected(Error(<<"session store failed">>, <<>>))}

\* lines 763-776
getProviderAuthForIntegration(integrationId, session) ==
    IF integrationId \notin DOMAIN providersMetadata THEN Fulfilled(Null)
    ELSE IF session.status = "rejected" THEN Rejected(session.reason)
    ELSE IF session.value = Null THEN Fulfilled(Null)
    ELSE Fulfilled([provider |-> integrationId, token |-> session.value.accessToken])

\* the pull requests and focus items suggestions are asked for, with the entity
\* identifier EntityIdentifierUtils.encode(getEntityIdentifierInput(item)) gives
CodeSuggestionItems == {[id |-> "pr-1", entityId |-> "pr-entity-1"]}

\* lines 839-849: the listing, with every failure swallowed
SwallowedDrafts(r) ==
    IF r.result.status = "rejected" THEN Returned(Array(<<>>))
    ELSE Returned(r.result.value)

\* lines 828-850, given the settled provider auth
CodeSuggestions(item, target, includeArchived, providerAuth, rsp, account) ==
    IF providerAuth.status = "rejected"
    THEN Run("getCodeSuggestions", [item |-> item, target |-> target], <<>>,
             Threw(providerAuth.reason))
    ELSE LET r == getDraftsCore([prEntityId |-> item.entityId,
                                 providerAuth |-> providerAuth.value,
                                 isArchived |-> includeArchived],
                                rsp, account)
         IN  Run("getCodeSuggestions", [item |-> item, target |-> target], r.calls,
                 SwallowedDrafts(r))

\* lines 817-850; options.includeArchived defaults to true
GetCodeSuggestions ==
    /\ op = "idle"
    /\ \E item \in CodeSuggestionItems, includeArchived \in BOOLEAN,
          list \in DraftListResponses, account \in Accounts :
       \E rsp \in FetchResults(list) :
           \/ \E repository \in Repositories :
               CodeSuggestions(item, [repository |-> repository], includeArchived,
                               getProviderAuthFromRepository(repository), rsp, account)
           \/ \E integrationId \in IntegrationIds, session \in SessionResults :
               CodeSuggestions(item, [integrationId |-> integrationId], includeArchived,
                               getProviderAuthForIntegration(integrationId, session),
                               rsp, account)

-----------------------------------------------------------------------------
(* RepositoryIdentityResolver: getRepositoryIdentity and                   *)
(* getRepositoryOrIdentity, lines 699-742.                                 *)

\* git/models/repository: a Repository, as opposed to a RepositoryIdentity
isRepository(x) == x # Null /\ "path" \in DOMAIN x

\* git/models/reference: the short form of a revision
shortenRevision(sha) ==
    CASE sha = "1111111111111111111111111111111111111111" -> "1111111"
      [] sha = "2222222222222222222222222222222222222222" -> "2222222"
      [] sha = "3333333333333333333333333333333333333333" -> "3333333"
      [] OTHER -> sha

\* git/remotes/remoteProviders: the provider the matcher derives from a remote,
\* Null when the domain is not one it knows
RemoteProviderMatcher(url, domain, path) ==
    IF domain = "github.com"
    THEN [repoName |-> CASE path = "acme/app" -> "app" [] OTHER -> Undefined]
    ELSE Null

\* the naming of lines 718-731 looking at the provider before the explicit name
IdentityNameProviderFirst(data) ==
    IF data.provider # Null /\ data.provider.repoName # Undefined
    THEN data.provider.repoName
    ELSE IF data.name # Undefined THEN data.name
    ELSE IF data.remote # Null /\ data.remote.path # Undefined THEN data.remote.path
    ELSE "Unknown "

\* lines 718-731: the name of the identity
IdentityName(data) ==
    IF data.name # Undefined THEN data.name
    ELSE IF data.provider # Null /\ data.provider.repoName # Undefined
    THEN data.provider.repoName
    ELSE IF /\ data.remote # Null
            /\ data.remote.url # Undefined
            /\ data.remote.domain # Undefined
            /\ data.remote.path # Undefined
    THEN LET provider == RemoteProviderMatcher(data.remote.url, data.remote.domain,
                                               data.remote.path)
         IN  IF provider # Null /\ provider.repoName # Undefined
             THEN provider.repoName ELSE data.remote.path
    ELSE IF data.remote # Null /\ data.remote.path # Undefined THEN data.remote.path
    ELSE "Unknown " \o (IF Truthy(data.initialCommitSha)
                        THEN " (" \o shortenRevision(data.initialCommitSha) \o ")"
                        ELSE "")

\* lines 709-742: the call getRepositoryIdentity issues and its settled result. The
\* response is parsed without a test of rsp.ok: a body that is no JSON rejects the
\* parse, and an error body has no `data` to look a name up in
getRepositoryIdentity(id, repoId, rsp) ==
    [calls |-> <<Call("getRepositoryIdentity",
                      <<"GET", "/v1/drafts", id, "git-repositories", repoId>>,
                      Null, Null, rsp, JsonRead(rsp, FALSE, TRUE))>>,
     result |->
         IF rsp.status = "rejected" THEN Rejected(rsp.reason)
         ELSE IF "unparsable" \in DOMAIN rsp.value.body
         THEN Rejected([name |-> "SyntaxError", message |-> <<"Unexpected token">>,
                        detail |-> <<>>])
         ELSE IF "data" \notin DOMAIN rsp.value.body
         THEN Rejected(TypeError("Cannot use 'in' operator to search for 'name'"))
         ELSE LET data == rsp.value.body.data
              IN  Fulfilled([id |-> data.id,
                             createdAt |-> NewDate(data.createdAt),
                             updatedAt |-> NewDate(data.updatedAt),
                             name |-> IdentityName(data),
                             initialCommitSha |-> data.initialCommitSha,
                             remote |-> data.remote,
                             provider |-> data.provider])]

\* lines 699-707: `located` is the answer of repositoryIdentity.getRepository
getRepositoryOrIdentity(id, repoId, rsp, located) ==
    LET identity == getRepositoryIdentity(id, repoId, rsp)
    IN  [calls |-> identity.calls,
         result |->
             IF identity.result.status = "rejected" THEN identity.result
             ELSE IF located.status = "rejected" THEN located
             ELSE IF located.value # Null THEN located
             ELSE identity.result]

\* the service's answers to GET /v1/drafts/:id/git-repositories/:repoId
RepositoryIdentityResponse(repoId, name, provider, remote, initialCommitSha) ==
    [id |-> repoId, createdAt |-> "2024-04-01", updatedAt |-> "2024-04-02",
     name |-> name, initialCommitSha |-> initialCommitSha, remote |-> remote,
     provider |-> provider]

WireRemote == [url |-> "https://github.com/acme/app.git", domain |-> "github.com",
               path |-> "acme/app"]
WireProvider == [id |-> "github", repoDomain |-> "acme", repoName |-> "app"]

\* the answers of repositoryIdentity.getRepository
LocateResults ==
    {Fulfilled(Null), Fulfilled(RepoWithSession),
     Rejected(Error(<<"unable to open repository">>, <<>>))}

\* the remotes an identity response carries: one the matcher derives a name from,
\* one of a known host it derives no name from, one of a host it does not know, one
\* with a path only, one without a path, and none
WireRemotes ==
    {Null, WireRemote,
     [url |-> "https://github.com/acme/other.git", domain |-> "github.com",
      path |-> "acme/other"],
     [url |-> "https://git.example.com/team/lib.git", domain |-> "git.example.com",
      path |-> "team/lib"],
     [url |-> Undefined, domain |-> Undefined, path |-> "bare/path"],
     [url |-> "https://github.com/acme/app.git", domain |-> "github.com",
      path |-> Undefined]}

\* the provider records an identity response carries
WireProviders ==
    {Null, [id |-> "github", repoDomain |-> "acme", repoName |-> Undefined],
     [id |-> "github", repoDomain |-> "acme", repoName |-> "provider-app"]}

\* identity responses with each source of a name present or missing
IdentityResponses(repoId) ==
    {RepositoryIdentityResponse(repoId, name, provider, remote, initialCommitSha) :
        name \in {Undefined, "explicit-name"}, provider \in WireProviders,
        remote \in WireRemotes,
        initialCommitSha \in {Undefined, "3333333333333333333333333333333333333333"}}

\* lines 709-742, called directly
GetRepositoryIdentity ==
    /\ op = "idle"
    /\ \E draft \in DraftIds, data \in IdentityResponses(<<"gk-repo", 1>>) :
       \E rsp \in FetchResults(data) :
           LET r == getRepositoryIdentity(draft, <<"gk-repo", 1>>, rsp)
           IN  Run("getRepositoryIdentity",
                   [draftId |-> draft, repoId |-> <<"gk-repo", 1>>],
                   r.calls, Delivered(r.result))

-----------------------------------------------------------------------------
(* DraftOrchestrator: getPatch and getPatchDetails, lines 516-596.         *)

\* the storage target's answers to a download: no answer, the blob, an error page
DownloadResults ==
    {Rejected(NetworkError),
     Fulfilled([ok |-> TRUE, status |-> 200, statusText |-> "OK", text |-> "diff-1"]),
     Fulfilled([ok |-> FALSE, status |-> 403, statusText |-> "Forbidden",
                text |-> "AccessDenied"])}

\* lines 528-544: the call getPatchCore issues and its settled result
getPatchCore(id, rsp) ==
    [calls |-> <<Call("getPatch", <<"GET", "/v1/patches", id>>, Null, Null, rsp,
                      JsonRead(rsp, TRUE, TRUE))>>,
     result |->
         IF rsp.status = "rejected" THEN Rejected(rsp.reason)
         ELSE IF ~rsp.value.ok
         THEN Rejected(handleBadDraftResponse(<<"Unable to open patch", id>>, rsp.value))
         ELSE Fulfilled(formatPatch(rsp.value.body.data, NoPatchOptions))]

\* lines 581-596: the download of a patch; the response is read as text whatever
\* its status
getPatchContentsCore(secureLink, rsp) ==
    [calls |-> <<Call("download", <<secureLink.method, secureLink.url>>,
                      Spread([Accept |-> "text/plain"], secureLink.headers), Null, rsp,
                      "none")>>,
     result |->
         IF rsp.status = "rejected" THEN Rejected(rsp.reason)
         ELSE Fulfilled(rsp.value.text)]

\* lines 551-579, from line 554 on: the calls getPatchDetails issues for a patch and
\* its settled result. Both lookups are started at once and both are waited for
getPatchDetails(patch, contentsRsp, identityRsp, located, diffFiles) ==
    LET download == getPatchContentsCore(patch.secureLink, contentsRsp)
        lookup == getRepositoryOrIdentity(patch.draftId, patch.gkRepositoryId,
                                          identityRsp, located)
        contents == getSettledValue(download.result, Undefined)
        repositoryOrIdentity == getSettledValue(lookup.result, Null)
    IN  [calls |-> download.calls \o lookup.calls,
         result |->
             IF diffFiles.status = "rejected" THEN Rejected(diffFiles.reason)
             ELSE Fulfilled([id |-> patch.id,
                             contents |-> contents,
                             files |-> Array(DiffFilesOf(diffFiles.value,
                                                         patch.gkRepositoryId)),
                             repository |-> repositoryOrIdentity])]

\* the identity the service answers for the repository of a listed patch
PatchIdentityResponse ==
    RepositoryIdentityResponse(<<"gk-repo", 1>>, Undefined, WireProvider, WireRemote,
                               "3333333333333333333333333333333333333333")

\* the patch asked for, as the service lists it, with either set of download headers
ListedPatches ==
    {[DraftPatchResponse("draft-1", 1) EXCEPT !.secureDownloadData.headers = headers] :
        headers \in StorageHeaders("Accept", "application/json")}

\* lines 546-579: getPatchDetails, called with a patch or with the id of one
GetPatchDetails ==
    /\ op = "idle"
    /\ \E listed \in ListedPatches, byId \in BOOLEAN :
       \E rsp \in FetchResults(listed),
          contentsRsp \in DownloadResults, identityRsp \in FetchResults(PatchIdentityResponse),
          located \in LocateResults :
       \E diffFiles \in DiffFilesResults :
           LET core == IF byId THEN getPatchCore(<<"patch", 1>>, rsp)
                       ELSE [calls |-> <<>>,
                             result |-> Fulfilled(formatPatch(listed,
                                                              NoPatchOptions))]
               arguments == [idOrPatch |-> IF byId THEN [id |-> <<"patch", 1>>]
                                           ELSE core.result.value]
           IN  IF core.result.status = "rejected"
               THEN Run("getPatchDetails", arguments, core.calls,
                        Delivered(core.result))
               ELSE LET details == getPatchDetails(core.result.value, contentsRsp,
                                                   identityRsp, located, diffFiles)
                    IN  Run("getPatchDetails", arguments, core.calls \o details.calls,
                            Delivered(details.result))

\* lines 516-526: the patch, then its details copied into it
GetPatch ==
    /\ op = "idle"
    /\ \E listed \in ListedPatches :
       \E rsp \in FetchResults(listed),
          contentsRsp \in DownloadResults, identityRsp \in FetchResults(PatchIdentityResponse),
          located \in LocateResults :
       \E diffFiles \in DiffFilesResults :
           LET core == getPatchCore(<<"patch", 1>>, rsp)
               arguments == [id |-> <<"patch", 1>>]
           IN  IF core.result.status = "rejected"
               THEN Run("getPatch", arguments, core.calls, Delivered(core.result))
               ELSE LET patch == core.result.value
                        details == getPatchDetails(patch, contentsRsp, identityRsp,
                                                   located, diffFiles)
                    IN  Run("getPatch", arguments, core.calls \o details.calls,
                            IF details.result.status = "rejected"
                            THEN Threw(details.result.reason)
                            ELSE Returned([patch EXCEPT
                                     !.contents = details.result.value.contents,
                                     !.files = details.result.value.files,
                                     !.repository = details.result.value.repository]))

-----------------------------------------------------------------------------
(* ProviderAuthResolver: getProviderAuthForDraft, lines 778-815.           *)

\* an absent repository id
NoRepositoryId == <<>>

\* the last patch of the changeset with a repository reference or a repository id
FindLastPatch(ps) ==
    LET found == {i \in 1..Len(ps) :
                     ps[i].repository # Null \/ ps[i].gkRepositoryId # NoRepositoryId}
    IN  IF found = {} THEN Null
        ELSE ps[CHOOSE i \in found : \A j \in found : j <= i]

\* line 785: the first patch with a repository reference or a repository id
RECURSIVE FindPatch(_)
FindPatch(ps) ==
    IF ps = <<>> THEN Null
    ELSE IF Head(ps).repository # Null \/ Head(ps).gkRepositoryId # NoRepositoryId
    THEN Head(ps)
    ELSE FindPatch(Tail(ps))

\* lines 783-789: each changeset with such a patch replaces the choice so far
RECURSIVE SelectPatch(_, _)
SelectPatch(changesets, patch) ==
    IF changesets = <<>> THEN patch
    ELSE LET changesetPatch == FindPatch(Head(changesets).patches)
         IN  SelectPatch(Tail(changesets),
                         IF changesetPatch # Null THEN changesetPatch ELSE patch)

\* lines 778-815: the calls getProviderAuthForDraft issues and its settled result.
\* located1 answers getRepository(patch.repository), rsp and located2 the calls of
\* getRepositoryOrIdentity
getProviderAuthForDraft(draft, located1, rsp, located2) ==
    IF draft.changesets = Null \/ Len(draft.changesets.list) = 0
    THEN [calls |-> <<>>, result |-> Fulfilled(Null)]
    ELSE LET patch == SelectPatch(draft.changesets.list, Null)
         IN  IF patch = Null THEN [calls |-> <<>>, result |-> Fulfilled(Null)]
             ELSE LET first ==
                          IF patch.repository = Null THEN Fulfilled(Null)
                          ELSE IF isRepository(patch.repository)
                          THEN Fulfilled(patch.repository)
                          ELSE located1
                  IN  IF first.status = "rejected"
                      THEN [calls |-> <<>>, result |-> first]
                      ELSE IF first.value # Null
                      THEN [calls |-> <<>>,
                            result |-> getProviderAuthFromRepository(first.value)]
                      ELSE LET r == getRepositoryOrIdentity(draft.id,
                                        patch.gkRepositoryId, rsp, located2)
                           IN  [calls |-> r.calls,
                                result |->
                                    IF r.result.status = "rejected" THEN r.result
                                    ELSE IF ~isRepository(r.result.value)
                                    THEN Fulfilled(Null)
                                    ELSE getProviderAuthFromRepository(r.result.value)]

-----------------------------------------------------------------------------
(* DraftOrchestrator: archiveDraft, lines 337-375.                         *)

\* a patch of a listed changeset, with the repository reference it was hydrated with
HydratedPatch(id, i, repository) ==
    formatPatch(DraftPatchResponse(id, i),
                [NoPatchOptions EXCEPT !.repository = repository])

\* a RepositoryIdentity no local repository was found for
Identity1 ==
    [id |-> <<"gk-repo", 1>>, createdAt |-> NewDate("2024-04-01"),
     updatedAt |-> NewDate("2024-04-02"), name |-> "app",
     initialCommitSha |-> "3333333333333333333333333333333333333333",
     remote |-> WireRemote, provider |-> WireProvider]

\* a Draft as held by a caller: a normalized draft with its changesets
DraftWith(id, visibility, changesets) ==
    [formatDraft([CHOOSE d \in DraftResponses(id, "suggested_pr_change") :
                      d.role = "owner" /\ d.updatedAt = Undefined
                  EXCEPT !.visibility = visibility],
                 DraftOptions(Account1, Undefined, FALSE))
        EXCEPT !.changesets = changesets]

ChangesetWith(id, ps) ==
    [formatChangeset(DraftChangesetResponse(id, 0)) EXCEPT !.patches = ps]

ArchiveDrafts ==
    {DraftWith("draft-1", "public", Null),
     DraftWith("draft-1", "provider_access", Null),
     DraftWith("draft-1", "provider_access", Array(<<>>)),
     DraftWith("draft-1", "provider_access",
               Array(<<ChangesetWith("draft-1", <<>>)>>))} \cup
    {DraftWith("draft-1", "provider_access",
               Array(<<ChangesetWith("draft-1", <<HydratedPatch("draft-1", 1, r)>>)>>)) :
        r \in {RepoWithSession, RepoNoSession, RepoRemoteFails, Identity1, Null}}

\* the test of line 343 left out: the supplied auth, if any, is all there is
NeedsProviderAuthNever(draft, supplied) == FALSE

\* line 343: a provider_access draft archived without supplied auth
NeedsProviderAuth(draft, supplied) ==
    draft.visibility = "provider_access" /\ supplied = Null

\* lines 337-375
ArchiveDraft ==
    /\ op = "idle"
    /\ \E draft \in ArchiveDrafts, supplied \in {Null, SomeProviderAuth},
          archiveReason \in {Undefined, "accepted"},
          located1 \in LocateResults, located2 \in LocateResults :
       \E identityRsp \in FetchResults(RepositoryIdentityResponse(
                              <<"gk-repo", 1>>, "app", WireProvider, WireRemote,
                              "3333333333333333333333333333333333333333")),
          rsp \in FetchResults(Null) :
           LET arguments == [draft |-> draft,
                             options |-> [providerAuth |-> supplied,
                                          archiveReason |-> archiveReason]]
               resolve == NeedsProviderAuth(draft, supplied)
               resolved == getProviderAuthForDraft(draft, located1, identityRsp,
                                                   located2)
               providerAuth == IF resolve THEN resolved.result ELSE Fulfilled(supplied)
               before == IF resolve THEN resolved.calls ELSE <<>>
           IN  IF providerAuth.status = "rejected"
               THEN Run("archiveDraft", arguments, before, Threw(providerAuth.reason))
               ELSE IF resolve /\ providerAuth.value = Null
               THEN Run("archiveDraft", arguments, before,
                        Threw(Error(<<"No provider integration found">>, <<>>)))
               ELSE Run("archiveDraft", arguments,
                        Append(before,
                            Call("archiveDraft",
                                 <<"POST", "v1/drafts", draft.id, "archive">>,
                                 IF providerAuth.value # Null
                                 THEN ProviderAuthHeader(providerAuth.value) ELSE Null,
                                 IF archiveReason # Undefined
                                 THEN [archiveReason |-> archiveReason] ELSE Null,
                                 rsp, JsonRead(rsp, TRUE, FALSE))),
                        Deliver(rsp, TRUE, <<"Unable to archive draft", draft.id>>,
                                Null))

-----------------------------------------------------------------------------
(* ProviderAuthResolver: getProviderAuthForDraft, lines 778-815.           *)

\* a second repository with a provider session, of another account
RepoWithSession2 ==
    Repository("r7", Fulfilled([integration |->
        Fulfilled(Integration("github", Fulfilled([accessToken |-> "token-2"])))]))

\* a patch of a draft with the repository reference and repository id it carries
PatchWith(i, repository, gkRepositoryId) ==
    [HydratedPatch("draft-1", i, repository) EXCEPT !.gkRepositoryId = gkRepositoryId]

\* a patch with neither a repository reference nor a repository id
PatchUnlinked(i) == PatchWith(i, Null, NoRepositoryId)

\* the changeset lists of the drafts auth is resolved for
AuthChangesets ==
    LET with(i, repository) == PatchWith(i, repository, <<"gk-repo", i>>)
        changeset(ps) == ChangesetWith("draft-1", ps)
    IN  {Null,
         Array(<<>>),
         Array(<<changeset(<<>>)>>),
         Array(<<changeset(<<PatchUnlinked(1)>>)>>),
         Array(<<changeset(<<with(1, RepoWithSession), with(2, RepoWithSession2)>>)>>),
         Array(<<changeset(<<with(1, RepoWithSession)>>),
                 changeset(<<with(2, RepoWithSession2)>>)>>),
         Array(<<changeset(<<with(1, RepoWithSession2)>>),
                 changeset(<<PatchUnlinked(2)>>)>>),
         Array(<<changeset(<<with(1, RepoNoSession)>>)>>),
         Array(<<changeset(<<PatchUnlinked(1), with(2, Identity1)>>)>>),
         Array(<<changeset(<<with(1, RepoWithSession)>>),
                 changeset(<<with(2, Null), with(3, RepoWithSession2)>>)>>)}

\* lines 778-815; `settled` keeps what the repository lookups and the identity
\* request answered
GetProviderAuthForDraft ==
    /\ op = "idle"
    /\ \E changesets \in AuthChangesets, located1 \in LocateResults,
          located2 \in LocateResults :
       \E identityRsp \in FetchResults(RepositoryIdentityResponse(
                              <<"gk-repo", 2>>, "app", WireProvider, WireRemote,
                              "3333333333333333333333333333333333333333")) :
           LET draft == DraftWith("draft-1", "provider_access", changesets)
               resolved == getProviderAuthForDraft(draft, located1, identityRsp,
                                                   located2)
           IN  /\ args' = [draft |-> draft]
               /\ settled' = [located1 |-> located1, identityRsp |-> identityRsp,
                              located2 |-> located2]
               /\ calls' = resolved.calls
               /\ outcome' = Settlement(resolved.result)
    /\ op' = "getProviderAuthForDraft"
    /\ pc' = "done"
    /\ UNCHANGED <<results, cdLocals>>

-----------------------------------------------------------------------------

Next ==
    \/ CreateDraft
    \/ SettlePatchRequest
    \/ InspectResults
    \/ ResolveProviderAuth
    \/ PostDraft
    \/ PostChangeset
    \/ UploadPatch
    \/ PublishDraft
    \/ FetchCreatedDraft
    \/ DeleteDraft
    \/ ArchiveDraft
    \/ UpdateDraftVisibility
    \/ AddDraftUsers
    \/ RemoveDraftUser
    \/ GetDraft
    \/ SettleDraftFetch
    \/ SettleChangesets
    \/ InspectDraft
    \/ GetDraftsCore
    \/ GetCodeSuggestions
    \/ GetRepositoryIdentity
    \/ GetPatchDetails
    \/ GetPatch
    \/ GetProviderAuthForDraft

Spec == Init /\ [][Next]_vars

\* Every promise createDraft awaits settles, and the continuation waiting for it
\* then runs: each of its steps, once enabled, is eventually taken.
FairSpec ==
    /\ Init
    /\ [][Next]_vars
    /\ WF_vars(SettlePatchRequest)
    /\ WF_vars(InspectResults)
    /\ WF_vars(ResolveProviderAuth)
    /\ WF_vars(PostDraft)
    /\ WF_vars(PostChangeset)
    /\ WF_vars(UploadPatch)
    /\ WF_vars(PublishDraft)
    /\ WF_vars(FetchCreatedDraft)

-----------------------------------------------------------------------------
(* ResponseNormalizer on its own: formatDraft, formatChangeset and         *)
(* formatPatch applied to wire payloads, lines 898-996.                    *)

Account2 == [id |-> "account-2", name |-> "Grace", email |-> "grace@example.com"]

\* the roles the service sends; the empty string stands for none
WireRoles == {"", "owner", "admin", "editor", "viewer"}

\* DraftResponse payloads
WireDrafts ==
    {[d EXCEPT !.createdBy = creator, !.role = role, !.archivedAt = archivedAt] :
        d \in {x \in DraftResponses("draft-1", "patch") : x.role = ""},
        creator \in {"account-1", "account-2"}, role \in WireRoles,
        archivedAt \in {Undefined, "2024-06-01"}}

\* the options formatDraft is called with: { account } by getDraft and createDraft,
\* { account, fallbackAuthorName, fromPrEntityId } by getDraftsCore
FormatDraftOptions ==
    {AccountOptions(a) : a \in {Account1, Account2, Null}} \cup
    {DraftOptions(a, f, p) : a \in {Account1, Account2, Null},
                             f \in {Undefined, "Unknown"}, p \in BOOLEAN}

\* DraftPatchResponse payloads
WirePatches ==
    {[DraftPatchResponse("draft-1", i) EXCEPT !.updatedAt = updatedAt] :
        i \in 1..2, updatedAt \in {Undefined, "2024-05-03"}}

\* DraftChangesetResponse payloads
WireChangesets ==
    {[DraftChangesetResponse("draft-1", 0) EXCEPT !.updatedAt = updatedAt,
                                                  !.patches = ps] :
        updatedAt \in {Undefined, "2024-05-02"},
        ps \in {<<>>} \cup {<<x>> : x \in WirePatches}
                \cup {<<x, y>> : x \in WirePatches, y \in WirePatches}}

\* the options formatPatch is called with: none, or the hydrated parts
FormatPatchOptions ==
    {NoPatchOptions,
     [commit |-> Null, contents |-> "diff-1",
      files |-> Array(<<[path |-> "a.ts", status |-> "M",
                         gkRepositoryId |-> <<"gk-repo", 1>>]>>),
      repository |-> RepoWithSession]}

NormalizerInputs ==
    {[kind |-> "draft", response |-> d, options |-> o] :
        d \in WireDrafts, o \in FormatDraftOptions} \cup
    {[kind |-> "changeset", response |-> c, options |-> Null] : c \in WireChangesets} \cup
    {[kind |-> "patch", response |-> x, options |-> o] :
        x \in WirePatches, o \in FormatPatchOptions}

\* a wire payload waits to be normalized
NormalizerInit ==
    /\ op = "idle"
    /\ pc = "idle"
    /\ args \in NormalizerInputs
    /\ results = <<>>
    /\ patchRequests = <<>>
    /\ failed = <<>>
    /\ user = Null
    /\ providerAuthHeader = Null
    /\ prEntityIdBody = Null
    /\ draftId = Undefined
    /\ createChangeset = Null
    /\ patches = <<>>
    /\ settled = Null
    /\ calls = <<>>
    /\ outcome = NoOutcome

\* a normalizer ran: `results` lists the normal forms it produced so far
Normalized(name, value, position) ==
    /\ op' = name
    /\ pc' = position
    /\ results' = Append(results, value)
    /\ outcome' = Returned(value)
    /\ UNCHANGED <<args, cdLocals, settled, calls>>

\* lines 898-949
FormatDraft ==
    /\ op = "idle"
    /\ args.kind = "draft"
    /\ Normalized("formatDraft", formatDraft(args.response, args.options), "formatted")

\* what formatDraft reads to derive the author, isMine and the role (lines 904, 908
\* and 914), taken from a Draft it produced: the creator is the author's id
Renormalizable(draft, draftResponse) ==
    [draftResponse EXCEPT !.createdBy = draft.author.id, !.role = draft.role]

\* lines 898-949, applied to the Draft it produced, in the same context
FormatDraftAgain ==
    /\ op = "formatDraft"
    /\ pc = "formatted"
    /\ Normalized("formatDraft",
                  formatDraft(Renormalizable(results[1], args.response), args.options),
                  "done")

\* lines 951-966
FormatChangeset ==
    /\ op = "idle"
    /\ args.kind = "changeset"
    /\ Normalized("formatChangeset", formatChangeset(args.response), "done")

\* lines 968-996
FormatPatch ==
    /\ op = "idle"
    /\ args.kind = "patch"
    /\ Normalized("formatPatch", formatPatch(args.response, args.options), "done")

NormalizerNext ==
    \/ FormatDraft
    \/ FormatDraftAgain
    \/ FormatChangeset
    \/ FormatPatch

NormalizerSpec == NormalizerInit /\ [][NormalizerNext]_vars

-----------------------------------------------------------------------------
(* PatchRequestBuilder on its own: getCreateDraftPatchRequestFromChange,   *)
(* lines 246-330, step by step over the git provider's answers.            *)

\* the answer of a lookup the builder never makes for the change
NotCalled == Pending

\* the revision range with the lookup that names its branches: getBranch for
\* working-tree changes, getCommitBranches for a committed range
BranchLookups ==
    {[to |-> Uncommitted, branch |-> b, commitBranches |-> NotCalled] :
        b \in {Fulfilled([name |-> "feature"]), Fulfilled(Null),
                Rejected(GitError("branch failed"))}}
    \cup
    {[to |-> "2222222222222222222222222222222222222222", branch |-> NotCalled,
      commitBranches |-> cb] :
        cb \in {Fulfilled(Array(<<"main", "dev">>)), Fulfilled(Array(<<>>)),
                 Fulfilled(Null), Rejected(GitError("branches failed"))}}

\* supplied contents, and the answer of getDiff when there are none
DiffLookups ==
    {[contents |-> c, diff |-> NotCalled] : c \in {"", "diff-2"}}
    \cup
    {[contents |-> Undefined, diff |-> d] :
        d \in {Fulfilled([contents |-> "diff-1"]), Fulfilled([contents |-> ""]),
                Fulfilled(Null), Rejected(GitError("diff failed"))}}

\* the base revision, and the answer of getCommit when it is not a full identifier
BaseLookups ==
    {[from |-> "1111111111111111111111111111111111111111", commit |-> NotCalled]}
    \cup
    {[from |-> "HEAD", commit |-> c] :
        c \in {Fulfilled([sha |-> "1111111111111111111111111111111111111111"]),
                Fulfilled(Null), Rejected(GitError("commit lookup failed"))}}

FirstShaAnswers ==
    {Fulfilled("3333333333333333333333333333333333333333"), Fulfilled(Undefined),
     Rejected(GitError("rev-list failed"))}

\* a remote whose provider has no known service id
RemoteUnknownProvider ==
    [GithubRemote EXCEPT !.provider.gkProviderId = Undefined]

RemoteAnswers ==
    {Fulfilled(GithubRemote), Fulfilled(RemoteUnknownProvider), Fulfilled(Null),
     Rejected(GitError("git remote failed"))}

UserAnswers == {Fulfilled(Alice), Fulfilled(Null), Rejected(GitError("config failed"))}

\* the changes handed to the builder, with the git provider's answers
BuilderChanges ==
    {Change(RepoWithSession, base.from, branch.to, diff.contents,
            [branch |-> branch.branch, commitBranches |-> branch.commitBranches,
             diff |-> diff.diff, firstSha |-> firstSha, remote |-> remote,
             user |-> gitUser, commit |-> base.commit]) :
        base \in BaseLookups, branch \in BranchLookups, diff \in DiffLookups,
        firstSha \in FirstShaAnswers, remote \in RemoteAnswers,
        gitUser \in UserAnswers}

\* a lookup as logged: its name and arguments
Lookup(name, arguments) == [name |-> name, args |-> arguments]

\* lines 251-264: the lookups started for a change, in the order of the array; the
\* second element is `undefined`, no lookup, when the change carries contents
IssuedLookups(change) ==
    LET uri == change.repository.uri
    IN  <<IF isUncommitted(change.revision.to)
          THEN Lookup("getBranch", <<uri>>)
          ELSE Lookup("getCommitBranches",
                      <<uri, change.revision.to, change.revision.from>>)>>
        \o (IF change.contents = Undefined
            THEN <<Lookup("getDiff", <<change.repository.path, change.revision.to,
                                       change.revision.from>>)>>
            ELSE <<>>)
        \o <<Lookup("getFirstCommitSha", <<uri>>),
             Lookup("getBestRemoteWithProvider", <<uri>>),
             Lookup("getCurrentUser", <<uri>>)>>

\* lines 249-264: the builder starts its lookups, all at once
BuildPatchRequest ==
    /\ op = "idle"
    /\ \E change \in BuilderChanges :
        /\ args' = [change |-> change]
        /\ calls' = IssuedLookups(change)
    /\ results' = [i \in 1..5 |-> Pending]
    /\ op' = "getCreateDraftPatchRequestFromChange"
    /\ pc' = "allSettled"
    /\ UNCHANGED <<cdLocals, settled, outcome>>

\* one pending element of the array of line 251 settles; they settle in any order
SettleLookup ==
    /\ op = "getCreateDraftPatchRequestFromChange"
    /\ pc = "allSettled"
    /\ \E i \in DOMAIN results :
        /\ results[i].status = "pending"
        /\ results' = [results EXCEPT ![i] = Lookups(args.change)[i]]
    /\ UNCHANGED <<op, pc, args, cdLocals, settled, calls, outcome>>

\* lines 266-311: every lookup has settled; the builder fails, returns, or calls
\* getCommit for a base revision that is not a full identifier
InspectLookups ==
    /\ op = "getCreateDraftPatchRequestFromChange"
    /\ pc = "allSettled"
    /\ AllSettled(results)
    /\ LET r == PatchRequestFromLookups(args.change, results, Pending)
       IN  IF r.status = "pending"
           THEN /\ pc' = "getCommit"
                /\ calls' = Append(calls,
                       Lookup("getCommit", <<args.change.repository.uri,
                                             args.change.revision.from>>))
                /\ UNCHANGED outcome
           ELSE /\ Finish(Settlement(r))
                /\ UNCHANGED calls
    /\ UNCHANGED <<op, args, results, cdLocals, settled>>

\* lines 311-329: getCommit has settled
ResolveBaseRevision ==
    /\ op = "getCreateDraftPatchRequestFromChange"
    /\ pc = "getCommit"
    /\ Finish(Settlement(
           PatchRequestFromLookups(args.change, results, args.change.git.commit)))
    /\ UNCHANGED <<op, args, results, cdLocals, settled, calls>>

BuilderNext ==
    \/ BuildPatchRequest
    \/ SettleLookup
    \/ InspectLookups
    \/ ResolveBaseRevision

BuilderSpec == Init /\ [][BuilderNext]_vars

-----------------------------------------------------------------------------
(* Repository resolution for an issue (src/src/git/models/issue.ts):       *)
(* getOrOpenIssueRepository, lines 305-333.                                *)

\* Uri.parse(url).path
UriPath(url) == <<"path-of", url>>

IssueProviders ==
    {[id |-> "github", domain |-> "github.com"],
     [id |-> "gitlab", domain |-> "gitlab.com"]}

\* issue.repository: missing, with its own url, or without one
IssueRepositories ==
    {Null,
     [owner |-> "acme", repo |-> "app", url |-> "https://host/acme/app"],
     [owner |-> "acme", repo |-> "app", url |-> Undefined]}

Issues ==
    {[provider |-> provider, repository |-> repository,
      url |-> "https://host/acme/app/issues/1"] :
        provider \in IssueProviders, repository \in IssueRepositories}

\* options?: { promptIfNeeded?: boolean; skipVirtual?: boolean }, each field set or
\* left out
IssueRepositoryOptions ==
    UNION {[fields -> BOOLEAN] : fields \in SUBSET {"promptIfNeeded", "skipVirtual"}}

\* what a repository lookup answers: a repository, nothing, or a failure
RepositoryAnswers ==
    {Fulfilled(RepoWithSession), Fulfilled(Null),
     Rejected(Error(<<"repository lookup failed">>, <<>>))}

MissingRepositoryError == Error(<<"Missing repository">>, <<>>)

\* lines 278-295: the identity returned, or the error thrown for an issue without
\* repository
getRepositoryIdentityForIssue(issue) ==
    IF issue.repository = Null THEN Threw(MissingRepositoryError)
    ELSE Returned(
        [remote |-> [url |-> issue.repository.url, domain |-> issue.provider.domain],
         name |-> <<issue.repository.owner, "/", issue.repository.repo>>,
         provider |-> [id |-> issue.provider.id, domain |-> issue.provider.domain,
                       repoDomain |-> issue.repository.owner,
                       repoName |-> issue.repository.repo,
                       repoOwnerDomain |-> issue.repository.owner]])

\* lines 297-303: the error thrown for an issue without repository, else the uri
\* returned; the virtual view exists for github alone
getVirtualUriForIssue(issue) ==
    IF issue.repository = Null THEN Threw(MissingRepositoryError)
    ELSE IF issue.provider.id # "github" THEN Returned(Null)
    ELSE Returned([scheme |-> "virtual", authority |-> "github",
                   path |-> UriPath(IF issue.repository.url # Undefined
                                    THEN issue.repository.url ELSE issue.url)])

\* a resolution step as logged: which step, what it was asked, and its answer
Attempt(name, arguments) == [name |-> name, args |-> arguments, rsp |-> Pending]

\* the answer of the step in flight is recorded
Answer(rsp) == calls' = [calls EXCEPT ![Len(calls)].rsp = rsp]

\* the virtual view tried whatever options.skipVirtual says
TriesVirtualDespiteSkip(repo, options) == repo = Null

\* line 317: repo == null && !options?.skipVirtual
TriesVirtual(repo, options) == repo = Null /\ ~Option(options, "skipVirtual", FALSE)

\* line 324: repo == null && options?.promptIfNeeded
TriesPrompt(repo, options) == repo = Null /\ Option(options, "promptIfNeeded", FALSE)

\* lines 324-332: with `repo` in hand after the earlier steps and `log` the steps so
\* far, prompt if needed, else return
PromptOrReturn(repo, log) ==
    IF TriesPrompt(repo, args.options)
    THEN /\ calls' = Append(log,
                Attempt("prompt",
                        [identity |-> getRepositoryIdentityForIssue(args.issue).value,
                         openIfNeeded |-> TRUE, keepOpen |-> FALSE,
                         prompt |-> TRUE]))
         /\ pc' = "prompt"
         /\ UNCHANGED outcome
    ELSE /\ calls' = log
         /\ Finish(Returned(repo))

\* lines 310-315: the identity is derived and the direct lookup started
GetOrOpenIssueRepository ==
    /\ op = "idle"
    /\ \E issue \in Issues, options \in IssueRepositoryOptions :
        /\ args' = [issue |-> issue, options |-> options]
        /\ LET identity == getRepositoryIdentityForIssue(issue)
           IN  IF identity.kind = "threw"
               THEN /\ Finish(identity)
                    /\ UNCHANGED calls
               ELSE /\ calls' = <<Attempt("direct",
                                      [identity |-> identity.value,
                                       openIfNeeded |-> TRUE, keepOpen |-> FALSE,
                                       prompt |-> FALSE])>>
                    /\ pc' = "direct"
                    /\ UNCHANGED outcome
    /\ op' = "getOrOpenIssueRepository"
    /\ UNCHANGED <<results, cdLocals, settled>>

\* lines 311-322: the direct lookup has settled
DirectLookupSettles ==
    /\ op = "getOrOpenIssueRepository"
    /\ pc = "direct"
    /\ \E rsp \in RepositoryAnswers :
        LET log == [calls EXCEPT ![Len(calls)].rsp = rsp]
        IN  IF rsp.status = "rejected"
            THEN calls' = log /\ Finish(Threw(rsp.reason))
            ELSE LET repo == rsp.value
                     virtualUri == getVirtualUriForIssue(args.issue)
                 IN  IF ~TriesVirtual(repo, args.options) THEN PromptOrReturn(repo, log)
                     ELSE IF virtualUri.kind = "threw"
                     THEN calls' = log /\ Finish(virtualUri)
                     ELSE IF virtualUri.value # Null
                     THEN /\ calls' = Append(log,
                                 Attempt("virtual", [uri |-> virtualUri.value,
                                                     closeOnOpen |-> TRUE,
                                                     detectNested |-> FALSE]))
                          /\ pc' = "virtual"
                          /\ UNCHANGED outcome
                     ELSE PromptOrReturn(repo, log)
    /\ UNCHANGED <<op, args, results, cdLocals, settled>>

\* lines 320-330: the virtual view has settled
VirtualViewSettles ==
    /\ op = "getOrOpenIssueRepository"
    /\ pc = "virtual"
    /\ \E rsp \in RepositoryAnswers :
        LET log == [calls EXCEPT ![Len(calls)].rsp = rsp]
        IN  IF rsp.status = "rejected"
            THEN calls' = log /\ Finish(Threw(rsp.reason))
            ELSE PromptOrReturn(rsp.value, log)
    /\ UNCHANGED <<op, args, results, cdLocals, settled>>

\* lines 325-332: the prompt has settled
PromptSettles ==
    /\ op = "getOrOpenIssueRepository"
    /\ pc = "prompt"
    /\ \E rsp \in RepositoryAnswers :
        /\ Answer(rsp)
        /\ Finish(IF rsp.status = "rejected" THEN Threw(rsp.reason)
                  ELSE Returned(rsp.value))
    /\ UNCHANGED <<op, args, results, cdLocals, settled>>

IssueNext ==
    \/ GetOrOpenIssueRepository
    \/ DirectLookupSettles
    \/ VirtualViewSettles
    \/ PromptSettles

IssueSpec == Init /\ [][IssueNext]_vars

-----------------------------------------------------------------------------
(* Properties of createDraft.                                              *)

\* the position of a call of createDraft in the protocol
\* create-draft, create-changeset, uploads, publish, re-fetch
StepRank(name) ==
    CASE name = "createDraft" -> 1
      [] name = "createChangeset" -> 2
      [] name = "upload" -> 3
      [] name = "publish" -> 4
      [] name = "getDraft" -> 5

\* a settled call answered 2xx
Answered2xx(call) == call.rsp.status = "fulfilled" /\ call.rsp.value.ok
\* a settled call answered non-2xx
AnsweredNon2xx(call) == call.rsp.status = "fulfilled" /\ ~call.rsp.value.ok

\* the contents the builder resolves for a change, from the change alone
ResolvedContents(change) ==
    IF change.contents # Undefined THEN change.contents
    ELSE change.git.diff.value.contents

\* the input positions of the changes createDraft keeps: resolved, diff not empty
KeptChanges ==
    LET n == Len(args.changes)
        kept(i) == /\ getCreateDraftPatchRequestFromChange(args.changes[i]).status
                          = "fulfilled"
                   /\ ResolvedContents(args.changes[i]) # ""
    IN  SelectSeq([i \in 1..n |-> i], kept)

\* the positions of the changes whose build fails
FailedChanges ==
    {i \in 1..Len(args.changes) :
        getCreateDraftPatchRequestFromChange(args.changes[i]).status = "rejected"}

\* C1: in every execution of createDraft the remote calls occur in the order
\* create-draft, create-changeset, uploads, publish, re-fetch; each call is issued
\* only after the call before it was answered 2xx; and a non-2xx answer to
\* create-draft, create-changeset, publish or re-fetch ends createDraft in failure
\* with no later call.
C1_StrictlySequentialOn2xx ==
    op = "createDraft" =>
        /\ \A k \in 1..Len(calls) - 1 :
            /\ StepRank(calls[k].name) <= StepRank(calls[k + 1].name)
            /\ calls[k].name # "upload" =>
                   StepRank(calls[k].name) < StepRank(calls[k + 1].name)
            /\ Answered2xx(calls[k])
        /\ \A k \in 1..Len(calls) :
            AnsweredNon2xx(calls[k]) /\ calls[k].name # "upload" =>
                k = Len(calls) /\ pc = "done" /\ outcome.kind = "threw"

\* C2: when at least one change fails to resolve, createDraft throws an
\* AggregateError with exactly one cause per failed change, in input order, and
\* POST v1/drafts is never issued.
C2_AggregateErrorPerFailedChange ==
    op = "createDraft" =>
        /\ (\E i \in DOMAIN results : results[i].status = "rejected") => calls = <<>>
        /\ pc = "done" /\ FailedChanges # {} =>
            /\ outcome.kind = "threw"
            /\ outcome.error.name = "AggregateError"
            /\ Len(outcome.error.errors) = Cardinality(FailedChanges)
            /\ \A k \in 1..Len(outcome.error.errors) :
                \E i \in FailedChanges :
                    /\ outcome.error.errors[k] = results[i].reason
                    /\ Cardinality({j \in FailedChanges : j < i}) = k - 1
            /\ calls = <<>>

\* C2 witness: createDraft has ended over two changes, one failed and one resolved
C2_Witness ==
    /\ op = "createDraft"
    /\ pc = "done"
    /\ Len(args.changes) = 2
    /\ Cardinality(FailedChanges) = 1
    /\ outcome.kind = "threw"
    /\ outcome.error.name = "AggregateError"

\* C3: createDraft looks at the failures only once every build has settled: a build
\* that failed leaves every pending sibling able to settle, and createDraft is past
\* the wait (and the aggregate error raised) only when no build is pending.
C3_InspectsOnlyWhenAllSettled ==
    op = "createDraft" =>
        /\ pc # "allSettled" =>
               \A i \in DOMAIN results : results[i].status \in {"fulfilled", "rejected"}
        /\ (/\ \E i \in DOMAIN results : results[i].status = "rejected"
            /\ \E j \in DOMAIN results : results[j].status = "pending")
           => outcome = NoOutcome /\ ENABLED SettlePatchRequest
        /\ outcome.kind = "threw" /\ outcome.error.name = "AggregateError" =>
               \A i \in DOMAIN results : results[i].status # "pending"

\* C3 witness: one build has failed while a sibling is still pending
C3_Witness ==
    /\ op = "createDraft"
    /\ \E i, j \in DOMAIN results :
        results[i].status = "rejected" /\ results[j].status = "pending"

\* C4: when every change resolves to an empty diff, createDraft (of a draft that
\* needs no provider auth) fails with "No changes found" and issues no remote call.
C4_NoChangesWhenAllEmpty ==
    (/\ op = "createDraft"
     /\ args.type = "patch"
     /\ Len(args.changes) > 0
     /\ FailedChanges = {}
     /\ KeptChanges = <<>>)
    => /\ calls = <<>>
       /\ pc = "done" => outcome = Threw(Error(<<"No changes found">>, <<>>))

\* C5: a createDraft that returns, over changes that all resolved, returns a Draft
\* with one Changeset whose patches are the changes with a non-empty diff, one each
\* and in input order; the k-th patch is the k-th patch of the service's response,
\* was uploaded to its descriptor, and carries the non-empty contents and the
\* repository of the k-th such change.
C5_OnePatchPerNonEmptyChange ==
    op = "createDraft" /\ pc = "done" /\ outcome.kind = "returned" =>
        LET changesets == outcome.value.changesets.list
            uploads == SelectSeq(calls, LAMBDA c : c.name = "upload")
        IN  /\ Len(changesets) = 1
            /\ Len(changesets[1].patches) = Len(KeptChanges)
            /\ Len(uploads) = Len(KeptChanges)
            /\ \A k \in 1..Len(KeptChanges) :
                LET change == args.changes[KeptChanges[k]]
                    patch == changesets[1].patches[k]
                    descriptor == createChangeset.patches[k]
                IN  /\ patch.id = descriptor.id
                    /\ patch.contents = ResolvedContents(change)
                    /\ patch.contents # ""
                    /\ patch.contents # Undefined
                    /\ patch.repository = change.repository
                    /\ uploads[k].endpoint[2] = descriptor.secureUploadData.url
                    /\ uploads[k].body = ResolvedContents(change)

\* C5 witness: a Draft was returned whose only patch comes from the second change,
\* the first one having an empty diff
C5_Witness ==
    /\ op = "createDraft"
    /\ pc = "done"
    /\ outcome.kind = "returned"
    /\ KeptChanges = <<2>>
    /\ Len(outcome.value.changesets.list[1].patches) = 1

\* C5 and C6: the repository of the first change createDraft keeps
FirstKeptRepository == args.changes[KeptChanges[1]].repository

\* C6: createDraft of a suggested_pr_change issues no remote call and fails when
\* no prEntityId was supplied, or when no provider auth can be resolved from the
\* repository of the first change with a non-empty diff.
C6_SuggestionNeedsPullRequestAndAuth ==
    (/\ op = "createDraft"
     /\ args.type = "suggested_pr_change"
     /\ \/ args.options.prEntityId = Undefined
        \/ /\ KeptChanges # <<>>
           /\ LET providerAuth == FirstKeptRepository.bestRemoteWithIntegration
              IN  \/ providerAuth.status = "rejected"
                  \/ providerAuth.value = Null
                  \/ providerAuth.value.integration.status = "rejected"
                  \/ providerAuth.value.integration.value = Null
                  \/ providerAuth.value.integration.value.session.status = "rejected"
                  \/ providerAuth.value.integration.value.session.value = Null)
    => /\ calls = <<>>
       /\ pc = "done" => outcome.kind = "threw"
       /\ pc \in {"allSettled", "providerAuth", "done"}

\* C6 witness: a suggestion with a pull request, all changes resolved, ended on the
\* missing provider session of the first kept change's repository
C6_Witness ==
    /\ op = "createDraft"
    /\ pc = "done"
    /\ args.type = "suggested_pr_change"
    /\ args.options.prEntityId # Undefined
    /\ FailedChanges = {}
    /\ KeptChanges # <<>>
    /\ FirstKeptRepository = RepoNoSession
    /\ outcome = Threw(Error(<<"No provider integration found">>, <<>>))

-----------------------------------------------------------------------------
(* Properties of the mutation and read operations.                         *)

\* the calls that write or delete
WriteCalls ==
    {"deleteDraft", "archiveDraft", "updateDraftVisibility", "addDraftUsers",
     "removeDraftUser", "createDraft", "createChangeset", "publish"}

\* C7: every write or delete call answered non-2xx ends its operation in failure,
\* before any success body is read from the response or a value returned.
C7_WriteFailsOnNon2xx ==
    \A k \in 1..Len(calls) :
        calls[k].name \in WriteCalls /\ AnsweredNon2xx(calls[k]) =>
            /\ pc = "done"
            /\ outcome.kind = "threw"
            /\ calls[k].json # "data"

\* C8: in createDraft an upload that is rejected or answered non-2xx is fatal:
\* createDraft fails and publish is never issued.
C8_UploadFailureIsFatal ==
    op = "createDraft" =>
        \A k \in 1..Len(calls) :
            calls[k].name = "upload" /\ ~Answered2xx(calls[k]) =>
                /\ \A j \in 1..Len(calls) : calls[j].name # "publish"
                /\ pc = "done" => outcome.kind = "threw"

\* getDraft: the header fetch failed (rejected or non-2xx)
HeaderFetchFailed ==
    \/ settled.rspResult.status = "rejected"
    \/ settled.rspResult.status = "fulfilled" /\ ~settled.rspResult.value.ok
\* getDraft: the changeset fetch failed (rejected or non-2xx: getChangesets threw)
ChangesetFetchFailed == settled.changesetsResult.status = "rejected"

\* C9: getDraft fails with "Unable to open draft" when the header fetch fails, and
\* with "Unable to open changesets for draft" when only the changeset fetch fails.
C9_MessageNamesFailedFetch ==
    op = "getDraft" /\ pc = "done" =>
        /\ HeaderFetchFailed =>
            /\ outcome.kind = "threw"
            /\ outcome.error.message = <<"Unable to open draft", args.id>>
        /\ ~HeaderFetchFailed /\ ChangesetFetchFailed =>
            /\ outcome.kind = "threw"
            /\ outcome.error.message =
                   <<"Unable to open changesets for draft", args.id>>

\* C9 as amended: getDraft fails with "Unable to open draft" when the header fetch
\* is rejected, or answers non-2xx while the changeset fetch succeeds; it fails with
\* "Unable to open changesets for draft" when the changeset fetch fails and the
\* header fetch was not rejected, also when the header fetch answered non-2xx; it
\* fails in no other case, and the two messages differ.
C9_MessageNamesFirstInspectedFailure ==
    op = "getDraft" /\ pc = "done" =>
        LET headerMessage == <<"Unable to open draft", args.id>>
            changesetsMessage == <<"Unable to open changesets for draft", args.id>>
        IN  /\ headerMessage # changesetsMessage
            /\ (\/ settled.rspResult.status = "rejected"
                \/ HeaderFetchFailed /\ ~ChangesetFetchFailed) =>
                   outcome.kind = "threw" /\ outcome.error.message = headerMessage
            /\ settled.rspResult.status # "rejected" /\ ChangesetFetchFailed =>
                   outcome.kind = "threw" /\ outcome.error.message = changesetsMessage
            /\ ~HeaderFetchFailed /\ ~ChangesetFetchFailed => outcome.kind = "returned"

\* C9 witness: the header fetch answered non-2xx, the changeset fetch failed, and
\* getDraft reported the changeset fetch
C9_Witness ==
    /\ op = "getDraft"
    /\ pc = "done"
    /\ settled.rspResult.status = "fulfilled"
    /\ ~settled.rspResult.value.ok
    /\ ChangesetFetchFailed
    /\ outcome.kind = "threw"
    /\ outcome.error.message = <<"Unable to open changesets for draft", args.id>>

\* C10: getCodeSuggestions never throws: it returns a list, and the empty list
\* whenever provider auth could not be resolved or the listing call failed.
C10_CodeSuggestionsNeverThrows ==
    op = "getCodeSuggestions" /\ pc = "done" =>
        /\ outcome.kind = "returned"
        /\ (calls = <<>> \/ ~Answered2xx(calls[1])) => outcome.value = Array(<<>>)

-----------------------------------------------------------------------------
(* Properties of addDraftUsers, archiveDraft and getDraftsCore.            *)

\* C11: addDraftUsers called with an empty list fails and issues no remote call;
\* called with a non-empty list it issues exactly one remote call, carrying the list.
C11_AddDraftUsersRejectsEmptyList ==
    op = "addDraftUsers" /\ pc = "done" =>
        IF args.pendingUsers = <<>>
        THEN calls = <<>> /\ outcome.kind = "threw"
        ELSE /\ Len(calls) = 1
             /\ calls[1].name = "addDraftUsers"
             /\ calls[1].body.users = args.pendingUsers

\* C11 witness: addDraftUsers ended on an empty list
C11_Witness ==
    /\ op = "addDraftUsers"
    /\ pc = "done"
    /\ args.pendingUsers = <<>>
    /\ outcome = Threw(Error(<<"No changes found">>, <<>>))

\* the positions of the archive call in the call log
ArchiveCalls == {k \in 1..Len(calls) : calls[k].name = "archiveDraft"}

\* a draft nothing can be resolved from: no changesets, no patch in any of them, or
\* a patch in a repository whose integration has no session
NoAuthInDraft(draft) ==
    \/ draft.changesets = Null
    \/ \A i \in DOMAIN draft.changesets.list : draft.changesets.list[i].patches = <<>>
    \/ \E i \in DOMAIN draft.changesets.list :
        \E j \in DOMAIN draft.changesets.list[i].patches :
            draft.changesets.list[i].patches[j].repository = RepoNoSession

\* C12: archiveDraft of a provider_access draft without supplied auth resolves the
\* auth from the draft before the archive call; when none is resolved it fails and
\* the archive call is not issued; and every archive call issued for a
\* provider_access draft carries a Provider-Auth header, the supplied auth if any.
C12_ArchiveResolvesProviderAuth ==
    op = "archiveDraft" /\ args.draft.visibility = "provider_access" =>
        LET supplied == args.options.providerAuth
        IN  /\ \A k \in ArchiveCalls :
                /\ k = Len(calls)
                /\ calls[k].headers # Null
                /\ calls[k].headers =
                       IF supplied # Null THEN ProviderAuthHeader(supplied)
                       ELSE ProviderAuthHeader([provider |-> "github",
                                                token |-> "token-1"])
            /\ supplied = Null /\ NoAuthInDraft(args.draft) =>
                /\ ArchiveCalls = {}
                /\ outcome = Threw(Error(<<"No provider integration found">>, <<>>))
            /\ supplied = Null /\ ArchiveCalls = {} => outcome.kind = "threw"
            /\ supplied # Null => Len(calls) = 1 /\ ArchiveCalls = {1}

\* C12 witness: no auth was supplied, the repository was found through the identity
\* lookup, and the archive call went out with the header resolved from it
C12_Witness ==
    /\ op = "archiveDraft"
    /\ args.draft.visibility = "provider_access"
    /\ args.options.providerAuth = Null
    /\ Len(calls) = 2
    /\ calls[1].name = "getRepositoryIdentity"
    /\ calls[2].name = "archiveDraft"
    /\ calls[2].headers # Null
    /\ outcome.kind = "returned"

\* the listing call carries a prEntityId filter
FilteredByPrEntityId(call) ==
    /\ call.name = "getDrafts"
    /\ \E q \in DOMAIN call.endpoint[3] : call.endpoint[3][q][1] = "prEntityId"

\* C13: getDraftsCore with a prEntityId and no provider auth fails before any remote
\* call; a listing call with a prEntityId filter always carries the Provider-Auth
\* header, and every draft it returns is normalized with fromPrEntityId = true: an
\* empty wire role comes back as 'editor'.
C13_PrEntityIdListingNeedsProviderAuth ==
    /\ (/\ op = "getDraftsCore"
        /\ args.options.prEntityId # Undefined
        /\ args.options.providerAuth = Null)
       => /\ calls = <<>>
          /\ outcome = Threw(Error(<<"No provider integration found">>, <<>>))
    /\ op = "getDraftsCore" /\ args.options.prEntityId # Undefined /\ calls # <<>> =>
           FilteredByPrEntityId(calls[1])
    /\ \A k \in 1..Len(calls) :
        FilteredByPrEntityId(calls[k]) =>
            /\ calls[k].headers # Null
            /\ op = "getDraftsCore" =>
                   calls[k].headers = ProviderAuthHeader(args.options.providerAuth)
            /\ outcome.kind = "returned" /\ Answered2xx(calls[k]) =>
                   LET wire == calls[k].rsp.value.body.data
                       drafts == outcome.value.list
                   IN  /\ Len(drafts) = Len(wire)
                       /\ \A i \in DOMAIN wire :
                           /\ drafts[i].id = wire[i].id
                           /\ drafts[i].role =
                                  IF wire[i].role = "" THEN "editor" ELSE wire[i].role

\* C13 witness: a filtered listing returned a draft whose wire role was empty
C13_Witness ==
    /\ op = "getDraftsCore"
    /\ args.options.prEntityId # Undefined
    /\ calls # <<>>
    /\ FilteredByPrEntityId(calls[1])
    /\ outcome.kind = "returned"
    /\ \E i \in DOMAIN outcome.value.list :
        /\ calls[1].rsp.value.body.data[i].role = ""
        /\ outcome.value.list[i].role = "editor"

-----------------------------------------------------------------------------
(* Properties of the normalizer, under NormalizerSpec.                     *)

\* formatDraft was called with fromPrEntityId: true
FromPrEntityId ==
    "fromPrEntityId" \in DOMAIN args.options /\ args.options.fromPrEntityId

\* the active account formatDraft was called with, Null when there is none
ActiveAccount ==
    IF "account" \in DOMAIN args.options THEN args.options.account ELSE Null

\* C14: for every wire draft, an empty role becomes 'editor' when fromPrEntityId is
\* true and 'viewer' when it is false or absent; a non-empty role passes through
\* unchanged; the role of a normalized Draft is never the empty string.
C14_RoleDefaulting ==
    op = "formatDraft" =>
        LET role == results[1].role
        IN  /\ args.response.role = "" /\ FromPrEntityId => role = "editor"
            /\ args.response.role = "" /\ ~FromPrEntityId => role = "viewer"
            /\ args.response.role # "" => role = args.response.role
            /\ role # ""

\* C14 witness: an empty wire role normalized with fromPrEntityId absent
C14_Witness ==
    /\ op = "formatDraft"
    /\ args.response.role = ""
    /\ "fromPrEntityId" \notin DOMAIN args.options
    /\ results[1].role = "viewer"

\* C15: isMine is true exactly when the creator id equals the active account's id;
\* then the author's name is the account's name followed by " (you)" and the email
\* the account's; otherwise the name is the fallback name, or absent, and there is
\* no email.
C15_Ownership ==
    op = "formatDraft" =>
        LET draft == results[1]
            mine == ActiveAccount # Null /\ args.response.createdBy = ActiveAccount.id
        IN  /\ draft.isMine = mine
            /\ draft.author.id = args.response.createdBy
            /\ mine => /\ draft.author.name = ActiveAccount.name \o " (you)"
                       /\ draft.author.email = ActiveAccount.email
            /\ ~mine => /\ draft.author.name =
                               IF "fallbackAuthorName" \in DOMAIN args.options
                               THEN args.options.fallbackAuthorName ELSE Undefined
                        /\ draft.author.email = Undefined

\* C15 witness: a draft of the active account, listed with a fallback name
C15_Witness ==
    /\ op = "formatDraft"
    /\ ActiveAccount = Account1
    /\ args.response.createdBy = "account-1"
    /\ "fallbackAuthorName" \in DOMAIN args.options
    /\ args.options.fallbackAuthorName = "Unknown"
    /\ results[1].isMine
    /\ results[1].author.name = "Ada (you)"

\* updatedAt of a normal form: the wire's when present, else the wire's createdAt
DefaultedUpdatedAt(normal, wire) ==
    /\ wire.updatedAt # Undefined => normal.updatedAt = NewDate(wire.updatedAt)
    /\ wire.updatedAt = Undefined => normal.updatedAt = NewDate(wire.createdAt)
    /\ normal.createdAt = NewDate(wire.createdAt)

\* C16: for drafts, changesets and patches updatedAt is the wire's updatedAt when
\* present and createdAt when the wire omits it; a draft's archivedAt is set only
\* when the wire carries it.
C16_Timestamps ==
    op \in {"formatDraft", "formatChangeset", "formatPatch"} =>
        /\ DefaultedUpdatedAt(results[1], args.response)
        /\ op = "formatChangeset" =>
            /\ Len(results[1].patches) = Len(args.response.patches)
            /\ \A i \in DOMAIN args.response.patches :
                DefaultedUpdatedAt(results[1].patches[i], args.response.patches[i])
        /\ op = "formatDraft" =>
            /\ args.response.archivedAt # Undefined =>
                   results[1].archivedAt = NewDate(args.response.archivedAt)
            /\ args.response.archivedAt = Undefined =>
                   results[1].archivedAt = UndefinedDate

\* C16 witness: a changeset without updatedAt holding a patch without updatedAt
C16_Witness ==
    /\ op = "formatChangeset"
    /\ args.response.updatedAt = Undefined
    /\ \E i \in DOMAIN args.response.patches :
        /\ args.response.patches[i].updatedAt = Undefined
        /\ results[1].patches[i].updatedAt = NewDate("2024-05-01")
    /\ results[1].updatedAt = NewDate("2024-05-01")

\* C19: deriving role, isMine and the author's name a second time, from the Draft
\* formatDraft produced and in the same context, gives the same three values.
C19_NormalizerIdempotent ==
    op = "formatDraft" /\ Len(results) = 2 =>
        /\ results[2].role = results[1].role
        /\ results[2].isMine = results[1].isMine
        /\ results[2].author.name = results[1].author.name

\* C19 witness: a draft of the active account with a defaulted role, normalized twice
C19_Witness ==
    /\ op = "formatDraft"
    /\ Len(results) = 2
    /\ args.response.role = ""
    /\ results[1].isMine
    /\ results[2].role = "viewer"

-----------------------------------------------------------------------------
(* Properties of getRepositoryIdentity, under Spec.                        *)

\* the repo name the remote matcher derives for an identity response, Undefined when
\* the remote is missing or incomplete or the matcher derives none
MatcherRepoName(data) ==
    IF /\ data.remote # Null
       /\ data.remote.url # Undefined
       /\ data.remote.domain # Undefined
       /\ data.remote.path # Undefined
    THEN LET provider == RemoteProviderMatcher(data.remote.url, data.remote.domain,
                                               data.remote.path)
         IN  IF provider # Null THEN provider.repoName ELSE Undefined
    ELSE Undefined

\* C17: the identity's name is the explicit name if present; else the provider's
\* repo name; else the repo name the remote matcher derives; else the remote's path;
\* else an "Unknown" label, with the shortened first commit when there is one.
C17_IdentityNameFallbackOrder ==
    op = "getRepositoryIdentity" /\ outcome.kind = "returned" =>
        LET data == calls[1].rsp.value.body.data
            name == outcome.value.name
            explicit == data.name # Undefined
            provider == data.provider # Null /\ data.provider.repoName # Undefined
            matched == MatcherRepoName(data) # Undefined
            path == data.remote # Null /\ data.remote.path # Undefined
        IN  /\ explicit => name = data.name
            /\ ~explicit /\ provider => name = data.provider.repoName
            /\ ~explicit /\ ~provider /\ matched => name = MatcherRepoName(data)
            /\ ~explicit /\ ~provider /\ ~matched /\ path => name = data.remote.path
            /\ ~explicit /\ ~provider /\ ~matched /\ ~path =>
                   name = IF data.initialCommitSha # Undefined
                          THEN "Unknown  (3333333)" ELSE "Unknown "

\* C17 witness: no explicit name and no provider repo name, so the name is the one
\* the matcher derives from the remote, which is not the remote's path
C17_Witness ==
    /\ op = "getRepositoryIdentity"
    /\ outcome.kind = "returned"
    /\ calls[1].rsp.value.body.data.name = Undefined
    /\ calls[1].rsp.value.body.data.provider # Null
    /\ calls[1].rsp.value.body.data.provider.repoName = Undefined
    /\ calls[1].rsp.value.body.data.remote = WireRemote
    /\ outcome.value.name = "app"

-----------------------------------------------------------------------------
(* Properties of the patches the operations return, under Spec.            *)

\* the patches, or patch details, the operation has returned
ReturnedPatches ==
    IF outcome.kind # "returned" THEN {}
    ELSE IF op \in {"getPatch", "getPatchDetails"} THEN {outcome.value}
    ELSE IF op \in {"createDraft", "getDraft"}
    THEN UNION {{outcome.value.changesets.list[i].patches[j] :
                    j \in DOMAIN outcome.value.changesets.list[i].patches} :
                i \in DOMAIN outcome.value.changesets.list}
    ELSE {}

\* C18: in every patch an operation returns, contents and files are both present
\* or both absent.
C18_ContentsAndFilesTogether ==
    \A patch \in ReturnedPatches :
        (patch.contents = Undefined) <=> (patch.files = Null)

-----------------------------------------------------------------------------
(* Properties of createDraft's failures, under Spec.                       *)

\* C20: a remote step of createDraft that failed (rejected, or answered non-2xx) is
\* its last remote call and createDraft ends in failure; no endpoint is called
\* twice, an upload target no more than once, and no delete is ever issued.
C20_FailureIsTerminal ==
    op = "createDraft" =>
        /\ \A k \in 1..Len(calls) :
            ~Answered2xx(calls[k]) =>
                /\ k = Len(calls)
                /\ pc = "done" => outcome.kind = "threw"
        /\ \A j, k \in 1..Len(calls) :
            j # k /\ calls[j].name = calls[k].name =>
                calls[j].name = "upload" /\ calls[j].endpoint # calls[k].endpoint
        /\ \A k \in 1..Len(calls) :
            calls[k].name \in {"createDraft", "createChangeset", "upload", "publish",
                               "getDraft"}

-----------------------------------------------------------------------------
(* Properties of createDraft's requests, under Spec.                       *)

\* the calls createDraft makes to the drafts service (the uploads go to storage)
ServiceCalls ==
    {k \in 1..Len(calls) :
        calls[k].name \in {"createDraft", "createChangeset", "publish", "getDraft"}}

\* C21: for a suggested_pr_change every call createDraft makes to the service
\* (create-draft, create-changeset, publish, re-fetch) carries the Provider-Auth
\* header resolved from the first kept change's repository; for any other type
\* none of them carries a header.
C21_ProviderAuthOnEveryCall ==
    op = "createDraft" =>
        \A k \in ServiceCalls :
            IF args.type = "suggested_pr_change"
            THEN calls[k].headers =
                     ProviderAuthHeader(
                         getProviderAuthFromRepository(FirstKeptRepository).value)
            ELSE calls[k].headers = Null

-----------------------------------------------------------------------------
(* Properties of the patch-request builder, under BuilderSpec.             *)

\* the builder has ended
Built == op = "getCreateDraftPatchRequestFromChange" /\ pc = "done"

\* the lookups the builder made under the given name
LookupsNamed(name) == {k \in 1..Len(calls) : calls[k].name = name}

\* C22: when the base revision is not a full identifier and the builder looked it
\* up, the build succeeds whatever the lookup did: the base revision of the patch
\* is the commit's identifier when the lookup returned a commit, and the original
\* string when it returned nothing or failed.
C22_BaseRevisionBestEffort ==
    (Built /\ LookupsNamed("getCommit") # {}) =>
        LET commit == args.change.git.commit
        IN  /\ ~isSha(args.change.revision.from)
            /\ outcome.kind = "returned"
            /\ outcome.value.patch.baseCommitSha =
                   IF commit.status = "fulfilled" /\ commit.value # Null
                   THEN commit.value.sha
                   ELSE args.change.revision.from

\* what the git provider answered about the repository of the change being built
FirstShaFound == getSettledValue(args.change.git.firstSha, Undefined)
RemoteFound == getSettledValue(args.change.git.remote, Null)

\* the repository-identity request of the patch request the builder returned
BuiltRepoData == outcome.value.patch.gitRepoData

NoIdentityError == Error(<<"No remote or initial commit found">>, <<>>)

\* C23 as stated: the identity request of every successful build has a first-commit
\* fingerprint; it has nothing else when no remote was found, and a remote and the
\* provider's owner and repository name otherwise; the build fails with 'No remote
\* or initial commit found' when neither a remote nor a first commit is available.
C23_IdentityAlwaysHasFingerprint ==
    Built =>
        /\ (RemoteFound = Null /\ FirstShaFound = Undefined) =>
               outcome = Threw(NoIdentityError)
        /\ outcome.kind = "returned" =>
            /\ BuiltRepoData.initialCommitSha # Undefined
            /\ IF RemoteFound = Null
               THEN DOMAIN BuiltRepoData = {"initialCommitSha"}
               ELSE /\ DOMAIN BuiltRepoData = {"initialCommitSha", "remote", "provider"}
                    /\ BuiltRepoData.provider # Null
                    /\ BuiltRepoData.provider.repoDomain = RemoteFound.provider.owner
                    /\ BuiltRepoData.provider.repoName = RemoteFound.provider.repoName

\* C23 amended: the identity request of every successful build has a first-commit
\* fingerprint or a remote. With no remote it is the fingerprint alone. With a
\* remote it is the remote's url, domain and path, the fingerprint when a first
\* commit was found, and the provider's id, owner and repository name when all
\* three are known. The build fails with 'No remote or initial commit found'
\* exactly when neither a remote nor a first commit is available.
C23_IdentityHasFingerprintOrRemote ==
    Built =>
        /\ (RemoteFound = Null /\ FirstShaFound = Undefined) <=>
               outcome = Threw(NoIdentityError)
        /\ outcome.kind = "returned" =>
            IF RemoteFound = Null
            THEN BuiltRepoData = [initialCommitSha |-> FirstShaFound]
            ELSE /\ DOMAIN BuiltRepoData = {"initialCommitSha", "remote", "provider"}
                 /\ BuiltRepoData.initialCommitSha = FirstShaFound
                 /\ BuiltRepoData.remote =
                        [url |-> RemoteFound.url, domain |-> RemoteFound.domain,
                         path |-> RemoteFound.path]
                 /\ LET provider == RemoteFound.provider
                    IN  IF Undefined \in {provider.gkProviderId, provider.owner,
                                          provider.repoName}
                        THEN BuiltRepoData.provider = Null
                        ELSE BuiltRepoData.provider =
                                 [id |-> provider.gkProviderId,
                                  repoDomain |-> provider.owner,
                                  repoName |-> provider.repoName]

\* C23 witness: a build succeeded with a remote and no first commit; its identity
\* request has a remote and no fingerprint
C23_Witness ==
    /\ Built
    /\ outcome.kind = "returned"
    /\ RemoteFound # Null
    /\ FirstShaFound = Undefined
    /\ BuiltRepoData.initialCommitSha = Undefined
    /\ BuiltRepoData.remote.url = RemoteFound.url

\* the answer of the branch lookup the builder made for the change
BranchLookupAnswer ==
    IF args.change.revision.to = Uncommitted
    THEN args.change.git.branch
    ELSE args.change.git.commitBranches

\* the first branch the lookup returned, "none" when it returned nothing, an empty
\* list, or failed
FirstBranchFound ==
    LET answer == BranchLookupAnswer
    IN  IF answer.status # "fulfilled" \/ answer.value = Null THEN "none"
        ELSE IF args.change.revision.to = Uncommitted THEN answer.value.name
        ELSE IF answer.value.list = <<>> THEN "none"
        ELSE Head(answer.value.list)

\* C24: the builder asks for the current branch of a working-tree change and for
\* the branches containing both ends of a committed range; the branch name of the
\* patch is the first branch returned, and 'HEAD' when the lookup returned nothing,
\* an empty list, or failed; a failed branch lookup never fails the build.
C24_BranchNameOrHead ==
    Built =>
        LET change == args.change
            uri == change.repository.uri
        IN  /\ IF change.revision.to = Uncommitted
               THEN /\ calls[1] = Lookup("getBranch", <<uri>>)
                    /\ LookupsNamed("getCommitBranches") = {}
               ELSE /\ calls[1] = Lookup("getCommitBranches",
                                         <<uri, change.revision.to, change.revision.from>>)
                    /\ LookupsNamed("getBranch") = {}
            /\ outcome.kind = "returned" =>
                   outcome.value.patch.baseBranchName =
                       IF FirstBranchFound = "none" THEN "HEAD" ELSE FirstBranchFound
            /\ (outcome.kind = "threw" /\ BranchLookupAnswer.status = "rejected") =>
                   outcome.error # BranchLookupAnswer.reason

\* C24 witness: the lookup of the branches containing a committed range failed and
\* the build succeeded with the branch name 'HEAD'
C24_Witness ==
    /\ Built
    /\ args.change.revision.to # Uncommitted
    /\ args.change.git.commitBranches.status = "rejected"
    /\ outcome.kind = "returned"
    /\ outcome.value.patch.baseBranchName = "HEAD"

\* the contents getDiff computed for the change, Undefined when it answered nothing
\* or failed
ComputedContents ==
    LET diff == args.change.git.diff
    IN  IF diff.status = "fulfilled" /\ diff.value # Null
        THEN diff.value.contents ELSE Undefined

\* C25: contents supplied by the caller are used as they are and no diff is
\* computed; without them the computed diff is used; with identity data available
\* the build fails if and only if there are neither supplied nor computed contents;
\* a failed diff surfaces only as the 'Unable to diff' failure, and only once every
\* lookup started with it has settled.
C25_ContentsSuppliedOrComputed ==
    Built =>
        LET change == args.change
            supplied == change.contents
        IN  /\ IF supplied # Undefined
               THEN /\ LookupsNamed("getDiff") = {}
                    /\ outcome.kind = "returned" => outcome.value.contents = supplied
               ELSE /\ calls[2] = Lookup("getDiff",
                                         <<change.repository.path, change.revision.to,
                                           change.revision.from>>)
                    /\ outcome.kind = "returned" =>
                           outcome.value.contents = ComputedContents
            /\ ~(RemoteFound = Null /\ FirstShaFound = Undefined) =>
                   (outcome.kind = "threw" <=>
                        (supplied = Undefined /\ ComputedContents = Undefined))
            /\ (supplied = Undefined /\ change.git.diff.status = "rejected"
                    /\ outcome.kind = "threw") =>
                   /\ outcome.error \in
                          {NoIdentityError,
                           Error(<<"Unable to diff", change.revision.from,
                                   change.revision.to>>, <<>>)}
                   /\ \A i \in DOMAIN results : results[i].status # "pending"

-----------------------------------------------------------------------------
(* Properties of getOrOpenIssueRepository, under IssueSpec.                *)

\* the place of a resolution step in the fixed order
AttemptRank(name) ==
    CASE name = "direct" -> 1
      [] name = "virtual" -> 2
      [] name = "prompt" -> 3

\* the step answered, and answered with no repository
ReturnedNothing(attempt) ==
    attempt.rsp.status = "fulfilled" /\ attempt.rsp.value = Null

\* the option is set to true
IsSet(options, field) == field \in DOMAIN options /\ options[field]

\* C26: getOrOpenIssueRepository tries the direct lookup, then the virtual view,
\* then the prompt, in that order and each at most once; the virtual view only if
\* the direct lookup returned nothing, skipVirtual is not set and the provider is
\* github; the prompt only if every earlier step returned nothing and
\* promptIfNeeded is set; once a step has resolved a repository no later step runs.
C26_ResolutionOrder ==
    op = "getOrOpenIssueRepository" =>
        /\ calls # <<>> => calls[1].name = "direct"
        /\ \A j, k \in 1..Len(calls) :
               j < k => AttemptRank(calls[j].name) < AttemptRank(calls[k].name)
        /\ \A k \in 1..Len(calls) :
            /\ calls[k].name = "virtual" =>
                /\ ReturnedNothing(calls[1])
                /\ ~IsSet(args.options, "skipVirtual")
                /\ args.issue.provider.id = "github"
            /\ calls[k].name = "prompt" =>
                /\ \A j \in 1..(k - 1) : ReturnedNothing(calls[j])
                /\ IsSet(args.options, "promptIfNeeded")
            /\ (calls[k].rsp.status = "fulfilled" /\ calls[k].rsp.value # Null) =>
                /\ k = Len(calls)
                /\ outcome = Returned(calls[k].rsp.value)

\* C26 witness: the direct lookup and the virtual view returned nothing and the
\* prompt resolved the repository that is returned
C26_Witness ==
    /\ op = "getOrOpenIssueRepository"
    /\ pc = "done"
    /\ Len(calls) = 3
    /\ calls[2].name = "virtual"
    /\ calls[3].name = "prompt"
    /\ outcome = Returned(RepoWithSession)

-----------------------------------------------------------------------------
(* Properties of getProviderAuthForDraft, under Spec.                      *)

\* the patch has a repository reference or a repository id
Linked(patch) == patch.repository # Null \/ patch.gkRepositoryId # NoRepositoryId

\* the patches of all changesets, in scanning order
RECURSIVE PatchesOf(_)
PatchesOf(changesets) ==
    IF changesets = <<>> THEN <<>>
    ELSE Head(changesets).patches \o PatchesOf(Tail(changesets))

\* the linked patches of the draft, in scanning order
LinkedPatches(draft) ==
    IF draft.changesets = Null THEN <<>>
    ELSE SelectSeq(PatchesOf(draft.changesets.list), Linked)

\* the last linked patch scanned
LastLinkedPatch(draft) ==
    LET linked == LinkedPatches(draft) IN linked[Len(linked)]

\* the first linked patch of the last changeset that has one
FirstLinkedPatchOfLastChangeset(draft) ==
    LET changesets == draft.changesets.list
        has(i) == SelectSeq(changesets[i].patches, Linked) # <<>>
        last == CHOOSE i \in 1..Len(changesets) :
                    has(i) /\ \A j \in 1..Len(changesets) : has(j) => j <= i
    IN  Head(SelectSeq(changesets[last].patches, Linked))

\* the identity request answered with an identity
IdentityFetched ==
    /\ settled.identityRsp.status = "fulfilled"
    /\ "data" \in DOMAIN settled.identityRsp.value.body

\* getProviderAuthForDraft resolved `patch` to a local repository, from the patch's
\* own handle, by the identity resolver, or through the draft's identity request,
\* and answered with the auth of that repository; it answered no auth, without
\* raising, when all it found was an identity
ResolvedFrom(patch) ==
    LET own == IF patch.repository = Null THEN Fulfilled(Null)
               ELSE IF isRepository(patch.repository) THEN Fulfilled(patch.repository)
               ELSE settled.located1
    IN  IF own.status = "rejected"
        THEN calls = <<>> /\ outcome = Threw(own.reason)
        ELSE IF own.value # Null
        THEN /\ calls = <<>>
             /\ outcome = Settlement(getProviderAuthFromRepository(own.value))
        ELSE /\ Len(calls) = 1
             /\ calls[1].endpoint = <<"GET", "/v1/drafts", args.draft.id,
                                      "git-repositories", patch.gkRepositoryId>>
             /\ IdentityFetched =>
                    IF settled.located2.status = "rejected"
                    THEN outcome = Threw(settled.located2.reason)
                    ELSE IF settled.located2.value = Null
                    THEN outcome = Returned(Null)
                    ELSE outcome = Settlement(getProviderAuthFromRepository(
                                                  settled.located2.value))

\* C27 as stated: getProviderAuthForDraft answers no auth, without raising and
\* without a call, for a draft with no changesets or no linked patch; otherwise it
\* resolves the last linked patch scanned over all changesets.
C27_SelectsLastLinkedPatch ==
    op = "getProviderAuthForDraft" =>
        IF LinkedPatches(args.draft) = <<>>
        THEN calls = <<>> /\ outcome = Returned(Null)
        ELSE ResolvedFrom(LastLinkedPatch(args.draft))

\* C27 amended: getProviderAuthForDraft answers no auth, without raising and
\* without a call, for a draft with no changesets or no linked patch; otherwise it
\* resolves the first linked patch of the last changeset that has one.
C27_SelectsFirstLinkedPatchOfLastChangeset ==
    op = "getProviderAuthForDraft" =>
        IF LinkedPatches(args.draft) = <<>>
        THEN calls = <<>> /\ outcome = Returned(Null)
        ELSE ResolvedFrom(FirstLinkedPatchOfLastChangeset(args.draft))

\* C27 witness: the only changeset has two linked patches, and the auth returned is
\* that of the first patch's repository
C27_Witness ==
    /\ op = "getProviderAuthForDraft"
    /\ args.draft.changesets # Null
    /\ Len(args.draft.changesets.list) = 1
    /\ Len(LinkedPatches(args.draft)) = 2
    /\ outcome = Returned([provider |-> "github", token |-> "token-1"])

-----------------------------------------------------------------------------
(* Properties of createDraft's changeset request, under Spec.              *)

\* the git user known for a change, Null when the lookup found none or failed
KnownUser(change) == getSettledValue(change.git.user, Null)

\* the kept changes with a known git user, in input order
KeptChangesWithUser ==
    SelectSeq(KeptChanges, LAMBDA i : KnownUser(args.changes[i]) # Null)

\* C28: the create-changeset request carries the git user of the first change, in
\* input order, that was kept (resolved, diff not empty) and has a known git user,
\* and no user when there is none; no change failed; its patches are the patch
\* metadata of the kept changes, in input order.
C28_ChangesetRequestUserAndPatches ==
    op = "createDraft" =>
        \A k \in 1..Len(calls) :
            calls[k].name = "createChangeset" =>
                LET request == calls[k].body
                    gitUser == IF KeptChangesWithUser = <<>> THEN Null
                               ELSE KnownUser(args.changes[KeptChangesWithUser[1]])
                IN  /\ FailedChanges = {}
                    /\ request.gitUserName =
                           IF gitUser = Null THEN Undefined ELSE gitUser.name
                    /\ request.gitUserEmail =
                           IF gitUser = Null THEN Undefined ELSE gitUser.email
                    /\ Len(request.patches) = Len(KeptChanges)
                    /\ \A i \in 1..Len(KeptChanges) :
                           request.patches[i] =
                               getCreateDraftPatchRequestFromChange(
                                   args.changes[KeptChanges[i]]).value.patch

\* C28 witness: the first change has a known user and an empty diff, the second is
\* kept, and the request carries the second change's user
C28_Witness ==
    /\ op = "createDraft"
    /\ Len(args.changes) = 2
    /\ KnownUser(args.changes[1]) # Null
    /\ KeptChanges = <<2>>
    /\ \E k \in 1..Len(calls) :
           /\ calls[k].name = "createChangeset"
           /\ calls[k].body.gitUserName = KnownUser(args.changes[2]).name
           /\ calls[k].body.gitUserName # KnownUser(args.changes[1]).name

-----------------------------------------------------------------------------
(* Properties of getDraft's two fetches, under Spec.                       *)

\* getDraft's two fetches, issued together
BothFetchesIssued ==
    /\ Len(calls) = 2
    /\ calls[1].endpoint = <<"GET", "v1/drafts", args.id>>
    /\ calls[2].endpoint = <<"GET", "/v1/drafts", args.id, "changesets">>

\* getDraft ended only after both fetches had settled
EndedAfterBothSettled ==
    pc = "done" =>
        /\ calls[1].rsp.status # "pending"
        /\ calls[2].rsp.status # "pending"
        /\ settled.rspResult.status # "pending"
        /\ settled.changesetsResult.status # "pending"

\* the error getDraft reports for a rejected header fetch
HeaderFetchError ==
    Error(<<"Unable to open draft", args.id>>,
          <<ErrorToString(settled.rspResult.reason)>>)

\* the error getDraft reports for a failed changeset fetch
ChangesetFetchError ==
    Error(<<"Unable to open changesets for draft", args.id>>,
          <<ErrorToString(settled.changesetsResult.reason)>>)

\* a header fetch answered non-2xx with the changeset fetch succeeding fails
\* getDraft; a Draft that is returned has exactly the fetched changesets
HeaderFailureAndSuccess ==
    pc = "done" =>
        /\ (AnsweredNon2xx(calls[1]) /\ ~ChangesetFetchFailed) =>
               outcome = Threw(handleBadDraftResponse(
                                   <<"Unable to open draft", args.id>>,
                                   settled.rspResult.value))
        /\ outcome.kind = "returned" =>
               /\ ~HeaderFetchFailed /\ ~ChangesetFetchFailed
               /\ outcome.value.changesets =
                      Array(Map(formatChangeset, calls[2].rsp.value.body.data))

\* C29 as stated: getDraft issues both fetches whatever either does and ends only
\* after both have settled; when both fail the error reported is the header
\* fetch's; a header fetch answered non-2xx with the changeset fetch succeeding
\* fails getDraft; a returned Draft has exactly the fetched changesets.
C29_BothFailReportsHeader ==
    op = "getDraft" =>
        /\ BothFetchesIssued
        /\ EndedAfterBothSettled
        /\ HeaderFailureAndSuccess
        /\ (pc = "done" /\ HeaderFetchFailed /\ ChangesetFetchFailed) =>
               /\ outcome.kind = "threw"
               /\ outcome.error.message = <<"Unable to open draft", args.id>>

\* C29 amended: as above, except that when both fail the error reported is the
\* header fetch's if the header fetch was rejected, and the changeset fetch's if
\* the header fetch answered non-2xx.
C29_BothFailReportsFirstRejection ==
    op = "getDraft" =>
        /\ BothFetchesIssued
        /\ EndedAfterBothSettled
        /\ HeaderFailureAndSuccess
        /\ (pc = "done" /\ HeaderFetchFailed /\ ChangesetFetchFailed) =>
               outcome = Threw(IF settled.rspResult.status = "rejected"
                               THEN HeaderFetchError ELSE ChangesetFetchError)

\* C29 witness: the header fetch answered non-2xx, the changeset fetch was rejected
\* by the transport, and getDraft reported the transport's error under the
\* changesets message
C29_Witness ==
    /\ op = "getDraft"
    /\ pc = "done"
    /\ AnsweredNon2xx(calls[1])
    /\ calls[2].rsp = Rejected(NetworkError)
    /\ outcome = Threw(Error(<<"Unable to open changesets for draft", args.id>>,
                             <<ErrorToString(NetworkError)>>))

-----------------------------------------------------------------------------
(* Termination of createDraft, under FairSpec.                             *)

\* the uploads createDraft made
Uploads == {k \in 1..Len(calls) : calls[k].name = "upload"}

\* createDraft has ended: it returned a Draft or raised an error
CreateDraftEnded ==
    /\ op = "createDraft"
    /\ pc = "done"
    /\ \/ outcome.kind = "threw"
       \/ outcome.kind = "returned" /\ outcome.value.id = draftId

\* C30: every createDraft eventually ends, returning a Draft or raising an error,
\* and at no time has it made more than four calls to the service and one upload
\* per patch descriptor the changeset creation returned.
C30_CreateDraftTerminates ==
    /\ [](op = "createDraft" =>
            /\ Cardinality(ServiceCalls) <= 4
            /\ Cardinality(Uploads) <=
                   IF createChangeset = Null THEN 0 ELSE Len(createChangeset.patches))
    /\ (op = "createDraft") ~> CreateDraftEnded

\* C30 witness: createDraft returned a Draft after four calls to the service and
\* two uploads
C30_Witness ==
    /\ CreateDraftEnded
    /\ outcome.kind = "returned"
    /\ Cardinality(ServiceCalls) = 4
    /\ Cardinality(Uploads) = 2
    /\ Len(createChangeset.patches) = 2

====
